---- MODULE Spec2Model ----
(***************************************************************************)
(* A model of aspect-rs: the pointcut engine (aspect-core/src/pointcut),   *)
(* the advice contract (aspect-core/src/aspect.rs, joinpoint.rs) and the   *)
(* aspect registry (aspect-runtime/src/registry.rs).                       *)
(*                                                                         *)
(* Rust strings are sequences of characters; a character is a one-letter   *)
(* TLA+ string, except the two-byte character U+00E9, written "U+00E9".    *)
(* Option<T> is a sequence of length at most one: <<>> is None, <<x>> is   *)
(* Some(x).                                                                *)
(***************************************************************************)
EXTENDS Integers, Sequences, FiniteSets, TLC

VARIABLES
    aspects,      \* AspectRegistry.aspects: the Vec<RegisteredAspect> behind the RwLock
    nextId,       \* number of register calls made so far (identity of the next Arc<dyn Aspect>)
    registered,   \* history: the registrations made since the last clear
    phase,        \* position of the caller: "idle", "found", "proceeding", "returning"
    function,     \* the FunctionInfo of the current find_matching / apply_aspects call
    outcome,      \* what the caller's original computation returns when it is run
    chain,        \* the nest of continuations apply_aspects built, outermost layer first
    depth,        \* number of layers whose around has been entered and has not returned
    result,       \* the Result travelling up the chain (<<>> while none exists yet)
    found,        \* the Vec returned by the last find_matching
    log,          \* the advice calls and runs of the original computation, in order
    lock,         \* the RwLock around aspects: the thread holding it for writing (0: none),
                  \* and the threads holding it for reading
    threads,      \* concurrent callers: each thread's position, arguments and result
    input,        \* the string handed to parse_pointcut
    parsed,       \* what parse_pointcut did with it (<<>> before the call)
    mPointcut,    \* the Pointcut whose matches is called
    mFunction,    \* the FunctionInfo it is called with
    matched,      \* what matches returned (<<>> before the call)
    circuit,      \* the CircuitBreakerState behind the breaker's Mutex
    clock,        \* Instant::now(), in ticks
    callers,      \* the threads calling through the breaker's around: position and result
    observed,     \* history: what the breaker has done so far
    limiter,      \* the RateLimitState behind the limiter's Mutex
    instant,      \* Instant::now() as the limiter's callers read it, in ticks
    limited,      \* the caller going through the limiter's around: position and result
    buckets,      \* history: the calls each token bucket was asked for and granted
    advised       \* the threads calling apply_aspects and, from advice, the registry: position, snapshot, layers run

regVars == <<aspects, nextId, registered>>
callVars == <<phase, function, outcome, chain, depth, result, found, log>>
concVars == <<lock, threads>>
parseVars == <<input, parsed>>
matchVars == <<mPointcut, mFunction, matched>>
breakerVars == <<circuit, clock, callers, observed>>
limiterVars == <<limiter, instant, limited, buckets>>
applyVars == <<advised>>
vars == <<aspects, nextId, registered, phase, function, outcome, chain, depth, result, found, log,
          lock, threads, input, parsed, mPointcut, mFunction, matched,
          circuit, clock, callers, observed,
          limiter, instant, limited, buckets,
          advised>>

----------------------------------------------------------------------------
(* Strings *)

E_ACUTE == "U+00E9"

\* Number of bytes of a character in UTF-8.
Utf8Len(c) == IF c = E_ACUTE THEN 2 ELSE 1

StartsWith(s, p) == Len(p) <= Len(s) /\ SubSeq(s, 1, Len(p)) = p

EndsWith(s, p) == Len(p) <= Len(s) /\ SubSeq(s, Len(s) - Len(p) + 1, Len(s)) = p

Contains(s, p) == \E i \in 0..(Len(s) - Len(p)) : SubSeq(s, i + 1, i + Len(p)) = p

PUB == <<"p", "u", "b">>
PUB_CRATE == <<"p", "u", "b", "(", "c", "r", "a", "t", "e", ")">>
PUB_SUPER == <<"p", "u", "b", "(", "s", "u", "p", "e", "r", ")">>
COLONS == <<":", ":">>

----------------------------------------------------------------------------
(* Pattern types and the matcher *)

\* Public matching every tag that starts with pub: not what matches does.
VisibilityMatchesLoose(self, vis) ==
    \/ self = "Public" /\ StartsWith(vis, PUB)
    \/ self = "Crate" /\ vis = PUB_CRATE
    \/ self = "Super" /\ vis = PUB_SUPER
    \/ self = "Private" /\ vis = <<>>

VisibilityMatches(self, vis) ==
    \/ self = "Public" /\ vis = PUB
    \/ self = "Crate" /\ vis = PUB_CRATE
    \/ self = "Super" /\ vis = PUB_SUPER
    \/ self = "Private" /\ vis = <<>>

NamePatternMatches(self, name) ==
    CASE self.variant = "Wildcard" -> TRUE
      [] self.variant = "Exact" -> name = self.s
      [] self.variant = "Prefix" -> StartsWith(name, self.s)
      [] self.variant = "Suffix" -> EndsWith(name, self.s)
      [] self.variant = "Contains" -> Contains(name, self.s)

\* A prefix test without the separator: not what matches_path does.
matches_path_prefix(self, module_path) == StartsWith(module_path, self.path)

matches_path(self, module_path) ==
    module_path = self.path \/ StartsWith(module_path, self.path \o COLONS)

\* An unset visibility taken as Private: not what matches does.
ExecutionPatternMatchesUnsetPrivate(self, f) ==
    IF ~VisibilityMatches(IF self.visibility # <<>> THEN self.visibility[1] ELSE "Private",
                          f.visibility)
    THEN FALSE
    ELSE IF ~NamePatternMatches(self.name, f.name)
    THEN FALSE
    ELSE IF self.return_type # <<>>
            /\ ~(f.return_type # <<>> /\ Contains(f.return_type[1], self.return_type[1]))
    THEN FALSE
    ELSE TRUE

ExecutionPatternMatches(self, f) ==
    IF self.visibility # <<>> /\ ~VisibilityMatches(self.visibility[1], f.visibility)
    THEN FALSE
    ELSE IF ~NamePatternMatches(self.name, f.name)
    THEN FALSE
    ELSE IF self.return_type # <<>>
            /\ ~(f.return_type # <<>> /\ Contains(f.return_type[1], self.return_type[1]))
    THEN FALSE
    ELSE TRUE

ModulePatternMatches(self, f) == matches_path(self, f.module_path)

RECURSIVE Matches(_, _)

\* Not(p) matching whenever p does: not what matches does.
MatchesNotIgnored(self, f) ==
    CASE self.tag = "Execution" -> ExecutionPatternMatches(self.pattern, f)
      [] self.tag = "Within" -> ModulePatternMatches(self.pattern, f)
      [] self.tag = "And" -> Matches(self.left, f) /\ Matches(self.right, f)
      [] self.tag = "Or" -> Matches(self.left, f) \/ Matches(self.right, f)
      [] self.tag = "Not" -> Matches(self.inner, f)

Matches(self, f) ==
    CASE self.tag = "Execution" -> ExecutionPatternMatches(self.pattern, f)
      [] self.tag = "Within" -> ModulePatternMatches(self.pattern, f)
      [] self.tag = "And" -> Matches(self.left, f) /\ Matches(self.right, f)
      [] self.tag = "Or" -> Matches(self.left, f) \/ Matches(self.right, f)
      [] self.tag = "Not" -> ~Matches(self.inner, f)

Execution(visibility, name, return_type) ==
    [tag |-> "Execution",
     pattern |-> [visibility |-> visibility, name |-> name, return_type |-> return_type]]

Within(path) == [tag |-> "Within", pattern |-> [path |-> path]]

And(l, r) == [tag |-> "And", left |-> l, right |-> r]

Or(l, r) == [tag |-> "Or", left |-> l, right |-> r]

Not(p) == [tag |-> "Not", inner |-> p]

Wildcard == [variant |-> "Wildcard"]

NameVariant(v, s) == [variant |-> v, s |-> s]

public_functions == Execution(<<"Public">>, Wildcard, <<>>)

----------------------------------------------------------------------------
(* The registry *)

\* The number of register calls made in a run.
MaxRegs == 3

\* The priorities (i32) the callers register with.
Orders == {10, 20, 30}

\* The aspect implementations the callers register: one that overrides only
\* before/after/after_error and keeps the default around, and the rate limiter,
\* which overrides around.
Kinds == {"default", "ratelimit"}

M == <<"m">>
N == <<"n">>
NAME_A == <<"a">>

\* The pointcuts the callers register.
Pointcuts == {public_functions, Within(M)}

FunctionInfo(name, module_path, visibility) ==
    [name |-> name, module_path |-> module_path, visibility |-> visibility,
     return_type |-> <<>>]

with_return_type(f, return_type) == [f EXCEPT !.return_type = <<return_type>>]

\* The functions the callers invoke.
Functions ==
    {FunctionInfo(NAME_A, M, PUB), FunctionInfo(NAME_A, N, PUB), FunctionInfo(NAME_A, N, <<>>)}

Ok(v) == [ok |-> TRUE, value |-> v]

Err(e) == [ok |-> FALSE, error |-> e]

\* What the original computation of a call returns.
Outcomes == {Ok("value"), Err("failed")}

\* RegisteredAspect. The aspect handle carries the identity of the instance and
\* its implementation; the optional debugging name has no effect and is left out.
RegisteredAspect(id, kind, pointcut, order) ==
    [aspect |-> [id |-> id, kind |-> kind], pointcut |-> pointcut, order |-> order]

\* An unstable placement: x goes before the elements of equal key.
InsertPosBeforeEqual(s, x) == Cardinality({i \in 1..Len(s) : s[i].order < x.order})

\* Where a stable insertion puts x into the sorted sequence s: after every
\* element whose key is not greater.
InsertPos(s, x) == Cardinality({i \in 1..Len(s) : s[i].order <= x.order})

Insert(s, x) ==
    SubSeq(s, 1, InsertPos(s, x)) \o <<x>> \o SubSeq(s, InsertPos(s, x) + 1, Len(s))

\* A sort that was forgotten: the table stays in registration order.
sort_by_key_unsorted(s) == s

\* Vec::sort_by_key(|a| a.order): a stable sort, ascending.
RECURSIVE sort_by_key(_)
sort_by_key(s) ==
    IF s = <<>> THEN <<>>
    ELSE Insert(sort_by_key(SubSeq(s, 1, Len(s) - 1)), s[Len(s)])

push(s, x) == Append(s, x)

\* The filter of find_matching, in the order of the table.
RECURSIVE Filter(_, _)
Filter(s, f) ==
    IF s = <<>> THEN <<>>
    ELSE IF Matches(s[1].pointcut, f)
    THEN <<s[1]>> \o Filter(Tail(s), f)
    ELSE Filter(Tail(s), f)

\* A find_matching that does not filter.
find_matching_all(f) == aspects

find_matching(f) == Filter(aspects, f)

Reverse(s) == [i \in 1..Len(s) |-> s[Len(s) + 1 - i]]

\* The loop of apply_aspects over the sequence it iterates: each step wraps the
\* continuation built so far (inner) in a new one that calls the aspect's around,
\* so the aspect iterated last is the outermost layer.
Location(file, line) == [file |-> file, line |-> line]

JoinPoint(function_name, module_path, location) ==
    [function_name |-> function_name, module_path |-> module_path, location |-> location]

function_info_to_joinpoint(info) == JoinPoint(info.name, info.module_path, Location("unknown", 0))

\* The JoinPoint of the continuation the caller hands to apply_aspects: the
\* function's name and module path, and the place of the call in the source.
CallerJoinPoint(f) == JoinPoint(f.name, f.module_path, Location("src/data.rs", 42))

\* The loop of apply_aspects over the aspects still to wrap: each new
\* continuation runs the around of its aspect with the continuation built so
\* far (inner_pjp), whose context is the caller's JoinPoint when it is the
\* caller's continuation (inner = <<>>) and function_info_to_joinpoint(function)
\* when the loop built it. A layer is an aspect with the context of the
\* continuation its around receives.
RECURSIVE Wrap(_, _, _)
Wrap(iterated, inner, f) ==
    IF iterated = <<>> THEN inner
    ELSE Wrap(Tail(iterated),
              <<[id |-> iterated[1].aspect.id,
                 kind |-> iterated[1].aspect.kind,
                 ctx |-> IF inner = <<>> THEN CallerJoinPoint(f)
                         ELSE function_info_to_joinpoint(f)]>> \o inner,
              f)

\* The loop without rev().
IterationOrderForward(matching) == matching

\* matching.iter().rev()
IterationOrder(matching) == Reverse(matching)

\* A chain built from the table as it is when the chain is built.
BuildChainLive(matching, f) == Wrap(IterationOrder(Filter(aspects, f)), <<>>, f)

BuildChain(matching, f) == Wrap(IterationOrder(matching), <<>>, f)

\* An entry of the log: an advice hook or an around of the aspect at a layer of
\* the chain is called with the JoinPoint ctx, that around calls pjp.proceed()
\* or returns res, or (layer 0) the original computation runs and returns res.
Event(ev, layer, a, res) ==
    [ev |-> ev, layer |-> layer, id |-> a.id, res |-> res, ctx |-> <<a.ctx>>]

OrigEvent(res) == [ev |-> "orig", layer |-> 0, id |-> 0, res |-> res, ctx |-> <<>>]

RateLimitError == Err("rate limit exceeded")

CallIdle ==
    /\ phase = "idle"
    /\ function = <<>>
    /\ outcome = <<>>
    /\ chain = <<>>
    /\ depth = 0
    /\ result = <<>>
    /\ found = <<>>
    /\ log = <<>>

\* The number of threads that share the registry.
NumThreads == 2

Threads == 1..NumThreads

ThreadIdle == [pc |-> "idle", arg |-> <<>>, found |-> <<>>]

Unlocked == [writer |-> 0, readers |-> {}]

ConcIdle ==
    /\ lock = Unlocked
    /\ threads = [t \in Threads |-> ThreadIdle]

ParseIdle ==
    /\ input = <<>>
    /\ parsed = <<>>

MatchIdle ==
    /\ mPointcut = <<>>
    /\ mFunction = <<>>
    /\ matched = <<>>

BreakerIdle ==
    /\ circuit = <<>>
    /\ clock = 0
    /\ callers = <<>>
    /\ observed = <<>>

LimiterIdle ==
    /\ limiter = <<>>
    /\ instant = 0
    /\ limited = <<>>
    /\ buckets = <<>>

ApplyIdle == advised = <<>>

\* The variables the single caller of Spec leaves alone.
notSeq == <<concVars, parseVars, matchVars, breakerVars, limiterVars, applyVars>>

RegistryEmpty ==
    /\ aspects = <<>>
    /\ nextId = 1
    /\ registered = {}

Init ==
    /\ RegistryEmpty
    /\ CallIdle
    /\ ConcIdle
    /\ ParseIdle
    /\ MatchIdle
    /\ BreakerIdle
    /\ LimiterIdle
    /\ ApplyIdle

\* register(aspect, pointcut, order, name), called by the single caller of Spec
\* between its other calls: push, then sort
Register(kind, pointcut, order) ==
    /\ phase = "idle"
    /\ nextId <= MaxRegs
    /\ aspects' = sort_by_key(push(aspects, RegisteredAspect(nextId, kind, pointcut, order)))
    /\ registered' = registered \cup {RegisteredAspect(nextId, kind, pointcut, order)}
    /\ nextId' = nextId + 1
    /\ UNCHANGED callVars
    /\ UNCHANGED notSeq

\* clear()
Clear ==
    /\ phase = "idle"
    /\ aspects # <<>>
    /\ aspects' = <<>>
    /\ registered' = {}
    /\ UNCHANGED <<nextId, callVars>>
    /\ UNCHANGED notSeq

\* find_matching(function), called on its own
FindMatching(f) ==
    /\ phase = "idle"
    /\ phase' = "found"
    /\ function' = <<f>>
    /\ found' = find_matching(f)
    /\ UNCHANGED <<regVars, outcome, chain, depth, result, log>>
    /\ UNCHANGED notSeq

\* apply_aspects(function, pjp), up to the consumption of the outermost
\* continuation. With no match the chain is empty and the caller's continuation
\* is the one consumed next.
ApplyAspects(f, o) ==
    /\ phase = "idle"
    /\ phase' = "proceeding"
    /\ function' = <<f>>
    /\ outcome' = <<o>>
    /\ found' = find_matching(f)
    /\ chain' = IF find_matching(f) = <<>> THEN <<>> ELSE BuildChain(find_matching(f), f)
    /\ depth' = 0
    /\ result' = <<>>
    /\ log' = <<>>
    /\ UNCHANGED regVars
    /\ UNCHANGED notSeq

\* The default around, up to pjp.proceed(): it calls before, then proceeds.
DefaultAroundEnter(a) ==
    /\ a.kind = "default"
    /\ log' = log \o <<Event("around", depth + 1, a, <<>>),
                        Event("before", depth + 1, a, <<>>),
                        Event("proceed", depth + 1, a, <<>>)>>
    /\ depth' = depth + 1
    /\ UNCHANGED <<phase, result>>

\* A rate limiter that consumes its continuation although it denies the call:
\* not what its around does.
RateLimitAroundProceeds(a) ==
    /\ a.kind = "ratelimit"
    /\ \E acquired \in BOOLEAN :
        IF acquired
        THEN /\ log' = log \o <<Event("around", depth + 1, a, <<>>),
                                 Event("proceed", depth + 1, a, <<>>)>>
             /\ depth' = depth + 1
             /\ UNCHANGED <<phase, result>>
        ELSE /\ log' = log \o <<Event("around", depth + 1, a, <<>>),
                                 Event("return", depth + 1, a, <<RateLimitError>>)>>
             /\ depth' = depth + 1
             /\ UNCHANGED <<phase, result>>

\* The rate limiter's around: it proceeds when try_acquire grants a token (which
\* depends on the bucket and the clock) and returns an error otherwise.
RateLimitAround(a) ==
    /\ a.kind = "ratelimit"
    /\ \E acquired \in BOOLEAN :
        IF acquired
        THEN /\ log' = log \o <<Event("around", depth + 1, a, <<>>),
                                 Event("proceed", depth + 1, a, <<>>)>>
             /\ depth' = depth + 1
             /\ UNCHANGED <<phase, result>>
        ELSE /\ log' = log \o <<Event("around", depth + 1, a, <<>>),
                                 Event("return", depth + 1, a, <<RateLimitError>>)>>
             /\ phase' = "returning"
             /\ result' = <<RateLimitError>>
             /\ UNCHANGED depth

\* A continuation built by apply_aspects is consumed: the around of its aspect runs.
EnterLayer ==
    /\ phase = "proceeding"
    /\ depth < Len(chain)
    /\ \/ DefaultAroundEnter(chain[depth + 1])
       \/ RateLimitAround(chain[depth + 1])
    /\ UNCHANGED <<regVars, function, outcome, chain, found>>
    /\ UNCHANGED notSeq

\* A continuation that can be consumed again: the original computation runs and
\* the call stays where it is.
RunOriginalAgain ==
    /\ phase = "proceeding"
    /\ depth = Len(chain)
    /\ Len(log) < 2 * Len(chain) + 4
    /\ log' = Append(log, OrigEvent(outcome))
    /\ result' = outcome
    /\ phase' \in {"proceeding", "returning"}
    /\ UNCHANGED <<regVars, function, outcome, chain, depth, found>>
    /\ UNCHANGED notSeq

\* The caller's continuation is consumed: the original computation runs.
RunOriginal ==
    /\ phase = "proceeding"
    /\ depth = Len(chain)
    /\ log' = Append(log, OrigEvent(outcome))
    /\ result' = outcome
    /\ phase' = "returning"
    /\ UNCHANGED <<regVars, function, outcome, chain, depth, found>>
    /\ UNCHANGED notSeq

\* A default around that calls after whatever the result is.
DefaultAroundExitAlwaysAfter(a, res) ==
    /\ a.kind = "default"
    /\ result' = res
    /\ log' = log \o <<Event("after", depth, a, <<>>), Event("return", depth, a, res)>>

\* A default around that turns an error into a success.
DefaultAroundExitSwallow(a, res) ==
    /\ a.kind = "default"
    /\ result' = IF res[1].ok THEN res ELSE <<Ok("recovered")>>
    /\ log' = log \o <<Event(IF res[1].ok THEN "after" ELSE "after_error", depth, a, <<>>),
                        Event("return", depth, a, result')>>

\* The default around after pjp.proceed() returned res: it calls after or
\* after_error and returns res.
DefaultAroundExit(a, res) ==
    /\ a.kind = "default"
    /\ result' = res
    /\ log' = log \o <<Event(IF res[1].ok THEN "after" ELSE "after_error", depth, a, <<>>),
                        Event("return", depth, a, res)>>

\* The rate limiter's around returns what pjp.proceed() returned.
RateLimitExit(a, res) ==
    /\ a.kind = "ratelimit"
    /\ result' = res
    /\ log' = Append(log, Event("return", depth, a, res))

\* pjp.proceed() returns into the around of the enclosing layer.
ExitLayer ==
    /\ phase = "returning"
    /\ depth > 0
    /\ \/ DefaultAroundExit(chain[depth], result)
       \/ RateLimitExit(chain[depth], result)
    /\ depth' = depth - 1
    /\ UNCHANGED <<regVars, phase, function, outcome, chain, found>>
    /\ UNCHANGED notSeq

\* apply_aspects has returned result[1] to its caller.
Returned == phase = "returning" /\ depth = 0

\* The caller takes the value of find_matching or of apply_aspects and goes on.
Finish ==
    /\ phase = "found" \/ Returned
    /\ phase' = "idle"
    /\ function' = <<>>
    /\ outcome' = <<>>
    /\ chain' = <<>>
    /\ depth' = 0
    /\ result' = <<>>
    /\ found' = <<>>
    /\ log' = <<>>
    /\ UNCHANGED regVars
    /\ UNCHANGED notSeq

Next ==
    \/ \E k \in Kinds, p \in Pointcuts, o \in Orders : Register(k, p, o)
    \/ Clear
    \/ \E f \in Functions : FindMatching(f)
    \/ \E f \in Functions, o \in Outcomes : ApplyAspects(f, o)
    \/ EnterLayer
    \/ RunOriginal
    \/ ExitLayer
    \/ Finish

Spec == Init /\ [][Next]_vars

----------------------------------------------------------------------------
(* The advice chain and the registry: claims C1 to C7, under Spec *)

\* The registrations made since the last clear whose pointcut matches f.
RegisteredMatching(f) == {r \in registered : Matches(r.pointcut, f)}

OrderOf(id) == (CHOOSE r \in registered : r.aspect.id = id).order

Events(kinds) == SelectSeq(log, LAMBDA e : e.ev \in kinds)

LayerEvents(kinds, k) == SelectSeq(log, LAMBDA e : e.ev \in kinds /\ e.layer = k)

\* The position in the log of the only event of layer k among kinds.
PosOf(kinds, k) == CHOOSE i \in 1..Len(log) : log[i].ev \in kinds /\ log[i].layer = k

Ids(s) == [i \in 1..Len(s) |-> s[i].id]

AllDefault(rs) == \A r \in rs : r.aspect.kind = "default"

\* C1: when every registered aspect that matches the function keeps the default
\* around, a returned apply_aspects call has run the before hooks of all of them
\* in ascending priority number, then the original computation once, then their
\* after hooks in the reverse order, whatever the order of registration was.
C1_PriorityNesting ==
    (Returned /\ RegisteredMatching(function[1]) # {}
        /\ AllDefault(RegisteredMatching(function[1])))
    => LET B == Events({"before"})
           A == Events({"after", "after_error"})
           n == Cardinality(RegisteredMatching(function[1]))
       IN /\ Len(B) = n
          /\ {B[i].id : i \in 1..n} = {r.aspect.id : r \in RegisteredMatching(function[1])}
          /\ \A i, j \in 1..n : i < j => OrderOf(B[i].id) <= OrderOf(B[j].id)
          /\ Ids(A) = Reverse(Ids(B))
          /\ Ids(Events({"before", "orig", "after", "after_error"}))
                = Ids(B) \o <<0>> \o Ids(A)

\* Three default aspects that match were registered with priorities 30, 20, 10 in
\* that order, and the call has returned.
C1_Witness ==
    /\ Returned
    /\ Cardinality(RegisteredMatching(function[1])) = 3
    /\ AllDefault(RegisteredMatching(function[1]))
    /\ OrderOf(1) = 30 /\ OrderOf(2) = 20 /\ OrderOf(3) = 10
    /\ Ids(Events({"before"})) = <<3, 2, 1>>

\* What the continuation handed to layer k returned: the result of the next
\* layer's around, or of the original computation for the innermost layer.
InnerResult(k) ==
    IF k = Len(chain) THEN LayerEvents({"orig"}, 0)[1].res
    ELSE LayerEvents({"return"}, k + 1)[1].res

\* C2: a default around that has returned called before exactly once, before the
\* continuation it wraps started; it called after once and after_error never when
\* that continuation succeeded, after_error once and after never when it failed;
\* and it returned the continuation's result unchanged.
C2_DefaultAround ==
    \A k \in 1..Len(chain) :
        (chain[k].kind = "default" /\ LayerEvents({"return"}, k) # <<>>)
        => /\ Len(LayerEvents({"before"}, k)) = 1
           /\ Len(LayerEvents({"proceed"}, k)) = 1
           /\ Len(LayerEvents({"return"}, k)) = 1
           /\ PosOf({"before"}, k) < PosOf({"proceed"}, k)
           /\ \A i \in 1..Len(log) :
                (log[i].layer > k \/ log[i].ev = "orig") => PosOf({"proceed"}, k) < i
           /\ Len(LayerEvents({"after"}, k)) = (IF InnerResult(k)[1].ok THEN 1 ELSE 0)
           /\ Len(LayerEvents({"after_error"}, k)) = (IF InnerResult(k)[1].ok THEN 0 ELSE 1)
           /\ \A i \in 1..Len(log) :
                (log[i].layer = k /\ log[i].ev \in {"after", "after_error"})
                => /\ i < PosOf({"return"}, k)
                   /\ \A j \in 1..Len(log) :
                        (log[j].layer > k \/ log[j].ev = "orig") => j < i
           /\ LayerEvents({"return"}, k)[1].res = InnerResult(k)

\* Two default layers have returned the error of the original computation, each
\* after calling after_error.
C2_Witness ==
    /\ Returned
    /\ Len(chain) = 2
    /\ chain[1].kind = "default"
    /\ chain[2].kind = "default"
    /\ result = <<Err("failed")>>
    /\ Len(LayerEvents({"after_error"}, 1)) = 1

\* C3: in an apply_aspects call the original computation runs at most once, no
\* continuation of the chain is consumed twice, and when every layer of the chain
\* has proceeded and the call has returned the original computation ran exactly
\* once.
C3_OriginalAtMostOnce ==
    /\ Len(Events({"orig"})) <= 1
    /\ \A k \in 1..Len(chain) : Len(LayerEvents({"around"}, k)) <= 1
    /\ (Returned /\ Len(Events({"proceed"})) = Len(chain)) => Len(Events({"orig"})) = 1
    /\ (Len(Events({"proceed"})) < Len(chain)) => Len(Events({"orig"})) = 0

\* A call through three layers that all proceeded has returned.
C3_Witness ==
    /\ Returned
    /\ Len(chain) = 3
    /\ Len(Events({"proceed"})) = 3
    /\ Len(Events({"orig"})) = 1
    /\ \E k \in 1..3 : chain[k].kind = "ratelimit"

\* The error that arose in the call, if one did: the original computation's, or
\* the one a layer returned without proceeding.
ErrorsRaised ==
    {log[i].res[1] : i \in {j \in 1..Len(log) :
        /\ log[j].res # <<>>
        /\ ~log[j].res[1].ok
        /\ \/ log[j].ev = "orig"
           \/ log[j].ev = "return" /\ LayerEvents({"proceed"}, log[j].layer) = <<>>}}

\* C4: when the original computation or an inner layer returned an error, every
\* default around outside it that has returned called after_error once and after
\* never and returned that same error, and apply_aspects returns that error.
C4_ErrorPropagates ==
    \A e \in ErrorsRaised :
        /\ \A k \in 1..Len(chain) :
            (chain[k].kind = "default" /\ LayerEvents({"return"}, k) # <<>>)
            => /\ Len(LayerEvents({"after_error"}, k)) = 1
               /\ Len(LayerEvents({"after"}, k)) = 0
               /\ LayerEvents({"return"}, k)[1].res = <<e>>
        /\ \A i \in 1..Len(log) : log[i].ev = "return" => log[i].res = <<e>>
        /\ result = <<e>>

\* The rate limiter at the innermost of three layers denied the call, and the
\* two default layers around it have returned.
C4_Witness ==
    /\ Returned
    /\ Len(chain) = 3
    /\ chain[1].kind = "default" /\ chain[2].kind = "default" /\ chain[3].kind = "ratelimit"
    /\ ErrorsRaised = {RateLimitError}
    /\ Len(Events({"after_error"})) = 2

IsAscending(s) == \A i, j \in 1..Len(s) : i < j => s[i].order <= s[j].order

\* C5: find_matching returns exactly the registrations whose pointcut matches the
\* function, each once, in ascending priority order.
C5_FindMatchingSorted ==
    phase = "found"
    => /\ {found[i] : i \in 1..Len(found)} = RegisteredMatching(function[1])
       /\ Len(found) = Cardinality(RegisteredMatching(function[1]))
       /\ IsAscending(found)

\* Priority 20 was registered before priority 10, and find_matching lists the
\* priority 10 entry first.
C5_Witness ==
    /\ phase = "found"
    /\ Len(found) = 2
    /\ Cardinality(registered) = 3
    /\ found[1].order = 10 /\ found[1].aspect.id = 2
    /\ found[2].order = 20 /\ found[2].aspect.id = 1

\* C6: two entries of equal priority that find_matching returns are listed in
\* the order of their registration.
C6_StableTies ==
    phase = "found"
    => \A i, j \in 1..Len(found) :
        (i < j /\ found[i].order = found[j].order) => found[i].aspect.id < found[j].aspect.id

\* Two entries of priority 20 were registered, then one of priority 10, which
\* re-sorted the table; the two of priority 20 are still in registration order.
C6_Witness ==
    /\ phase = "found"
    /\ Len(found) = 3
    /\ found[1].order = 10 /\ found[1].aspect.id = 3
    /\ found[2].order = 20 /\ found[2].aspect.id = 1
    /\ found[3].order = 20 /\ found[3].aspect.id = 2

\* C7: when no registered pointcut matches the function, apply_aspects runs the
\* original computation once, returns its result unchanged, and calls no advice.
C7_NoMatchProceeds ==
    (Returned /\ RegisteredMatching(function[1]) = {})
    => /\ log = <<OrigEvent(outcome)>>
       /\ result = outcome
       /\ chain = <<>>

\* Aspects are registered, none matches the function called, and the call has
\* returned.
C7_Witness ==
    /\ Returned
    /\ Cardinality(registered) = 3
    /\ RegisteredMatching(function[1]) = {}
    /\ Len(log) = 1

----------------------------------------------------------------------------
(* The registry shared by several threads: claim C8, under SpecConc *)

\* The variables the threads of SpecConc leave alone.
notConc == <<callVars, parseVars, matchVars, breakerVars, limiterVars, applyVars>>

\* RwLock::write() returns only while no thread holds the lock at all.
\* A write() that does not wait for the readers:
CanWriteDespiteReaders == lock.writer = 0

CanWrite == lock.writer = 0 /\ lock.readers = {}

\* RwLock::read() returns only while no thread holds the lock for writing.
CanRead == lock.writer = 0

At(t, pc) == threads[t].pc = pc

Goto(t, pc, arg, fnd) == threads' = [threads EXCEPT ![t] = [pc |-> pc, arg |-> arg, found |-> fnd]]

\* register: self.aspects.write().unwrap()
RegisterLock(t, pointcut, order) ==
    /\ At(t, "idle")
    /\ nextId <= MaxRegs
    /\ CanWrite
    /\ lock' = [lock EXCEPT !.writer = t]
    /\ Goto(t, "push", <<RegisteredAspect(nextId, "default", pointcut, order)>>, <<>>)
    /\ nextId' = nextId + 1
    /\ UNCHANGED <<aspects, registered, notConc>>

\* register: aspects.push(RegisteredAspect { .. })
RegisterPush(t) ==
    /\ At(t, "push")
    /\ aspects' = push(aspects, threads[t].arg[1])
    /\ registered' = registered \cup {threads[t].arg[1]}
    /\ Goto(t, "sort", <<>>, <<>>)
    /\ UNCHANGED <<nextId, lock, notConc>>

\* register: aspects.sort_by_key(|a| a.order)
RegisterSort(t) ==
    /\ At(t, "sort")
    /\ aspects' = sort_by_key(aspects)
    /\ Goto(t, "unlock", <<>>, <<>>)
    /\ UNCHANGED <<nextId, registered, lock, notConc>>

\* clear: self.aspects.write().unwrap()
ClearLock(t) ==
    /\ At(t, "idle")
    /\ aspects # <<>>
    /\ CanWrite
    /\ lock' = [lock EXCEPT !.writer = t]
    /\ Goto(t, "clear", <<>>, <<>>)
    /\ UNCHANGED <<regVars, notConc>>

\* clear: .clear()
ClearVec(t) ==
    /\ At(t, "clear")
    /\ aspects' = <<>>
    /\ registered' = {}
    /\ Goto(t, "unlock", <<>>, <<>>)
    /\ UNCHANGED <<nextId, lock, notConc>>

\* register, clear: the write guard is dropped and the call returns
WriteUnlock(t) ==
    /\ At(t, "unlock")
    /\ lock' = [lock EXCEPT !.writer = 0]
    /\ Goto(t, "idle", <<>>, <<>>)
    /\ UNCHANGED <<regVars, notConc>>

\* find_matching: self.aspects.read().unwrap()
FindLock(t, f) ==
    /\ At(t, "idle")
    /\ CanRead
    /\ lock' = [lock EXCEPT !.readers = lock.readers \cup {t}]
    /\ Goto(t, "filter", <<f>>, <<>>)
    /\ UNCHANGED <<regVars, notConc>>

\* find_matching: aspects.iter().filter(..).cloned().collect()
FindFilter(t) ==
    /\ At(t, "filter")
    /\ Goto(t, "collected", threads[t].arg, Filter(aspects, threads[t].arg[1]))
    /\ UNCHANGED <<regVars, lock, notConc>>

\* find_matching: the read guard is dropped and the Vec is returned to the
\* caller, who goes on
FindUnlock(t) ==
    /\ At(t, "collected")
    /\ lock' = [lock EXCEPT !.readers = lock.readers \ {t}]
    /\ Goto(t, "idle", <<>>, <<>>)
    /\ UNCHANGED <<regVars, notConc>>

InitConc ==
    /\ RegistryEmpty
    /\ CallIdle
    /\ ConcIdle
    /\ ParseIdle
    /\ MatchIdle
    /\ BreakerIdle
    /\ LimiterIdle
    /\ ApplyIdle

NextConc ==
    \/ \E t \in Threads, p \in Pointcuts, o \in Orders : RegisterLock(t, p, o)
    \/ \E t \in Threads : RegisterPush(t)
    \/ \E t \in Threads : RegisterSort(t)
    \/ \E t \in Threads : ClearLock(t)
    \/ \E t \in Threads : ClearVec(t)
    \/ \E t \in Threads : WriteUnlock(t)
    \/ \E t \in Threads, f \in Functions : FindLock(t, f)
    \/ \E t \in Threads : FindFilter(t)
    \/ \E t \in Threads : FindUnlock(t)

SpecConc == InitConc /\ [][NextConc]_vars

Writing(t) == threads[t].pc \in {"push", "sort", "clear", "unlock"}

Reading(t) == threads[t].pc \in {"filter", "collected"}

\* C8: the threads inside register or clear are never two at a time, no thread
\* is inside find_matching while one is inside register or clear, so the table
\* a find_matching reads is never the one with an entry pushed and not yet
\* sorted, and every find_matching result is in ascending priority order.
C8_WritersSerialized ==
    /\ \A t, u \in Threads : (Writing(t) /\ Writing(u)) => t = u
    /\ \A t, u \in Threads : ~(Writing(t) /\ Reading(u))
    /\ \A t \in Threads : Reading(t) => IsAscending(aspects)
    /\ \A t \in Threads : IsAscending(threads[t].found)

\* A find_matching has collected two entries, in ascending priority order, that
\* were registered in descending order, while another thread is calling too.
C8_Witness ==
    \E t, u \in Threads :
        /\ t # u
        /\ At(t, "collected")
        /\ Len(threads[t].found) = 2
        /\ threads[t].found[1].aspect.id > threads[t].found[2].aspect.id
        /\ threads[t].found[1].order < threads[t].found[2].order
        /\ Reading(u)

----------------------------------------------------------------------------
(* The pointcut parser *)

EXECUTION_OPEN == <<"e", "x", "e", "c", "u", "t", "i", "o", "n", "(">>
WITHIN_OPEN == <<"w", "i", "t", "h", "i", "n", "(">>
FN_SPACE == <<"f", "n", " ">>
PUB_SPACE == <<"p", "u", "b", " ">>
PUB_CRATE_SPACE == <<"p", "u", "b", "(", "c", "r", "a", "t", "e", ")", " ">>
PUB_SUPER_SPACE == <<"p", "u", "b", "(", "s", "u", "p", "e", "r", ")", " ">>
OR_OPERATOR == <<" ", "|", "|", " ">>
AND_OPERATOR == <<" ", "&", "&", " ">>

\* char::is_whitespace, on the characters of the model
IsWhitespace(c) == c = " "

\* str::len: the length in bytes
RECURSIVE ByteLen(_)
ByteLen(s) == IF s = <<>> THEN 0 ELSE Utf8Len(s[1]) + ByteLen(Tail(s))

\* str::is_char_boundary
IsCharBoundary(s, b) == \E k \in 0..Len(s) : ByteLen(SubSeq(s, 1, k)) = b

\* The number of characters that end at or before byte offset b.
CharsBefore(s, b) == CHOOSE k \in 0..Len(s) : ByteLen(SubSeq(s, 1, k)) = b

\* &s[from..to] with byte offsets: it panics when from > to, when to is beyond
\* the end, or when an offset is not on a character boundary.
Slice(s, from, to) ==
    IF from <= to /\ IsCharBoundary(s, from) /\ IsCharBoundary(s, to)
    THEN [panic |-> FALSE, str |-> SubSeq(s, CharsBefore(s, from) + 1, CharsBefore(s, to))]
    ELSE [panic |-> TRUE, str |-> <<>>]

RECURSIVE trim_start(_)
trim_start(s) == IF s # <<>> /\ IsWhitespace(s[1]) THEN trim_start(Tail(s)) ELSE s

RECURSIVE trim_end(_)
trim_end(s) ==
    IF s # <<>> /\ IsWhitespace(s[Len(s)]) THEN trim_end(SubSeq(s, 1, Len(s) - 1)) ELSE s

trim(s) == trim_end(trim_start(s))

\* str::find(char): the byte offset of the first occurrence
FindChar(s, c) ==
    IF \E i \in 1..Len(s) : s[i] = c
    THEN <<ByteLen(SubSeq(s, 1, (CHOOSE i \in 1..Len(s) :
                                    s[i] = c /\ \A j \in 1..(i - 1) : s[j] # c) - 1))>>
    ELSE <<>>

\* depth at the end of the loop of strip_outer_parens over chars, or -1 as soon
\* as it goes negative.
RECURSIVE ParenDepth(_, _)
ParenDepth(chars, nesting) ==
    IF chars = <<>> THEN nesting
    ELSE IF chars[1] = "(" THEN ParenDepth(Tail(chars), nesting + 1)
    ELSE IF chars[1] = ")"
    THEN (IF nesting - 1 < 0 THEN -1 ELSE ParenDepth(Tail(chars), nesting - 1))
    ELSE ParenDepth(Tail(chars), nesting)

\* strip_outer_parens: Some(inner) as <<inner>>, None as <<>>
\* strip_outer_parens giving up on an inner text that is itself in parentheses
strip_outer_parens_once(inp) ==
    IF ~StartsWith(inp, <<"(">>) \/ ~EndsWith(inp, <<")">>)
    THEN [panic |-> FALSE, some |-> <<>>]
    ELSE LET inner == Slice(inp, 1, ByteLen(inp) - 1)
         IN IF inner.panic THEN [panic |-> TRUE, some |-> <<>>]
            ELSE IF ParenDepth(inner.str, 0) = 0 /\ ~StartsWith(inner.str, <<"(">>)
            THEN [panic |-> FALSE, some |-> <<inner.str>>]
            ELSE [panic |-> FALSE, some |-> <<>>]

strip_outer_parens(inp) ==
    IF ~StartsWith(inp, <<"(">>) \/ ~EndsWith(inp, <<")">>)
    THEN [panic |-> FALSE, some |-> <<>>]
    ELSE LET inner == Slice(inp, 1, ByteLen(inp) - 1)
         IN IF inner.panic THEN [panic |-> TRUE, some |-> <<>>]
            ELSE IF ParenDepth(inner.str, 0) = 0
            THEN [panic |-> FALSE, some |-> <<inner.str>>]
            ELSE [panic |-> FALSE, some |-> <<>>]

\* The loop of find_operator from index i on: the index, into the vector of
\* characters, of the first occurrence of operator outside parentheses.
RECURSIVE FindOperatorFrom(_, _, _, _)
FindOperatorFrom(chars, operator, i, nesting) ==
    IF i >= Len(chars) THEN <<>>
    ELSE IF chars[i + 1] = "(" THEN FindOperatorFrom(chars, operator, i + 1, nesting + 1)
    ELSE IF chars[i + 1] = ")" THEN FindOperatorFrom(chars, operator, i + 1, nesting - 1)
    ELSE IF /\ nesting = 0
            /\ i + ByteLen(operator) <= Len(chars)
            /\ SubSeq(chars, i + 1, i + ByteLen(operator)) = operator
    THEN <<i>>
    ELSE FindOperatorFrom(chars, operator, i + 1, nesting)

find_operator(inp, operator) == FindOperatorFrom(inp, operator, 0, 0)

\* parse_visibility: (Option<Visibility>, rest)
parse_visibility(inp) ==
    IF StartsWith(inp, PUB_CRATE_SPACE)
    THEN [visibility |-> <<"Crate">>, rest |-> Slice(inp, 11, ByteLen(inp))]
    ELSE IF StartsWith(inp, PUB_SUPER_SPACE)
    THEN [visibility |-> <<"Super">>, rest |-> Slice(inp, 11, ByteLen(inp))]
    ELSE IF StartsWith(inp, PUB_SPACE)
    THEN [visibility |-> <<"Public">>, rest |-> Slice(inp, 4, ByteLen(inp))]
    ELSE [visibility |-> <<>>, rest |-> [panic |-> FALSE, str |-> inp]]

\* parse_name_pattern without the test that the name is longer than two bytes:
\* not what the parser does.
parse_name_pattern_unguarded(name) ==
    IF name = <<"*">>
    THEN [panic |-> FALSE, pattern |-> Wildcard]
    ELSE IF StartsWith(name, <<"*">>) /\ EndsWith(name, <<"*">>)
    THEN [panic |-> Slice(name, 1, ByteLen(name) - 1).panic,
          pattern |-> NameVariant("Contains", Slice(name, 1, ByteLen(name) - 1).str)]
    ELSE IF StartsWith(name, <<"*">>)
    THEN [panic |-> Slice(name, 1, ByteLen(name)).panic,
          pattern |-> NameVariant("Suffix", Slice(name, 1, ByteLen(name)).str)]
    ELSE IF EndsWith(name, <<"*">>)
    THEN [panic |-> Slice(name, 0, ByteLen(name) - 1).panic,
          pattern |-> NameVariant("Prefix", Slice(name, 0, ByteLen(name) - 1).str)]
    ELSE [panic |-> FALSE, pattern |-> NameVariant("Exact", name)]

\* parse_name_pattern: the NamePattern, or a panic of one of its slices
parse_name_pattern(name) ==
    IF name = <<"*">>
    THEN [panic |-> FALSE, pattern |-> Wildcard]
    ELSE IF StartsWith(name, <<"*">>) /\ EndsWith(name, <<"*">>) /\ ByteLen(name) > 2
    THEN [panic |-> Slice(name, 1, ByteLen(name) - 1).panic,
          pattern |-> NameVariant("Contains", Slice(name, 1, ByteLen(name) - 1).str)]
    ELSE IF StartsWith(name, <<"*">>)
    THEN [panic |-> Slice(name, 1, ByteLen(name)).panic,
          pattern |-> NameVariant("Suffix", Slice(name, 1, ByteLen(name)).str)]
    ELSE IF EndsWith(name, <<"*">>)
    THEN [panic |-> Slice(name, 0, ByteLen(name) - 1).panic,
          pattern |-> NameVariant("Prefix", Slice(name, 0, ByteLen(name) - 1).str)]
    ELSE [panic |-> FALSE, pattern |-> NameVariant("Exact", name)]

\* The outcomes of parse_pointcut: Ok(pointcut), Err(message), or a panic.
ParseOk(pc) == [kind |-> "Ok", pc |-> pc]

ParseErr(text, arg) == [kind |-> "Err", text |-> text, arg |-> arg]

Panic == [kind |-> "Panic"]

\* parse_execution, after its content has been cut out and trimmed
ParseExecutionContent(content) ==
    LET vis == parse_visibility(content)
    IN IF vis.rest.panic THEN Panic
       ELSE IF ~StartsWith(trim(vis.rest.str), FN_SPACE)
       THEN ParseErr("Expected 'fn' keyword", <<>>)
       ELSE LET cut == Slice(trim(vis.rest.str), 3, ByteLen(trim(vis.rest.str)))
            IN IF cut.panic THEN Panic
               ELSE IF FindChar(trim(cut.str), "(") = <<>>
               THEN ParseErr("Expected function signature", <<>>)
               ELSE LET name == Slice(trim(cut.str), 0, FindChar(trim(cut.str), "(")[1])
                    IN IF name.panic THEN Panic
                       ELSE IF parse_name_pattern(trim(name.str)).panic THEN Panic
                       ELSE ParseOk(Execution(vis.visibility,
                                              parse_name_pattern(trim(name.str)).pattern,
                                              <<>>))

parse_execution(inp) ==
    IF ~StartsWith(inp, EXECUTION_OPEN) \/ ~EndsWith(inp, <<")">>)
    THEN ParseErr("Invalid execution syntax", <<>>)
    ELSE LET content == Slice(inp, 10, ByteLen(inp) - 1)
         IN IF content.panic THEN Panic ELSE ParseExecutionContent(trim(content.str))

parse_within(inp) ==
    IF ~StartsWith(inp, WITHIN_OPEN) \/ ~EndsWith(inp, <<")">>)
    THEN ParseErr("Invalid within syntax", <<>>)
    ELSE LET module_path == Slice(inp, 7, ByteLen(inp) - 1)
         IN IF module_path.panic THEN Panic ELSE ParseOk(Within(trim(module_path.str)))

\* The basic pointcuts at the end of parse_pointcut.
ParseBasic(inp) ==
    IF StartsWith(inp, EXECUTION_OPEN) THEN parse_execution(inp)
    ELSE IF StartsWith(inp, WITHIN_OPEN) THEN parse_within(inp)
    ELSE ParseErr("Unknown pointcut type: ", inp)

\* The position find_operator returned, used by parse_pointcut as it uses it.
SplitPos(pos) == pos

RECURSIVE ParseTrimmed(_)

\* A binary operator found at pos: &input[..pos] is cut and parsed, and when it
\* is Ok, &input[pos + 4..] is cut and parsed.
RECURSIVE ParseBinary(_, _, _)
ParseBinary(inp, pos, op) ==
    LET lcut == Slice(inp, 0, SplitPos(pos))
    IN IF lcut.panic THEN Panic
       ELSE LET left == ParseTrimmed(trim(lcut.str))
            IN IF left.kind # "Ok" THEN left
               ELSE LET rcut == Slice(inp, SplitPos(pos) + 4, ByteLen(inp))
                    IN IF rcut.panic THEN Panic
                       ELSE LET right == ParseTrimmed(trim(rcut.str))
                            IN IF right.kind # "Ok" THEN right
                               ELSE ParseOk(IF op = "Or" THEN Or(left.pc, right.pc)
                                            ELSE And(left.pc, right.pc))

\* A NOT operator that binds tighter than " || " and " && ": not what the
\* parser does.
ParseNotTight(inp) ==
    IF find_operator(inp, OR_OPERATOR) # <<>>
    THEN ParseBinary(inp, find_operator(inp, OR_OPERATOR)[1], "Or")
    ELSE IF find_operator(inp, AND_OPERATOR) # <<>>
    THEN ParseBinary(inp, find_operator(inp, AND_OPERATOR)[1], "And")
    ELSE LET cut == Slice(inp, 1, ByteLen(inp))
         IN IF cut.panic THEN Panic
            ELSE LET inner == ParseTrimmed(trim(cut.str))
                 IN IF inner.kind # "Ok" THEN inner ELSE ParseOk(Not(inner.pc))

\* The NOT operator: the outcome when the input starts with '!'.
ParseNot(inp) ==
    LET cut == Slice(inp, 1, ByteLen(inp))
    IN IF cut.panic THEN Panic
       ELSE LET inner == ParseTrimmed(trim(cut.str))
            IN IF inner.kind # "Ok" THEN inner ELSE ParseOk(Not(inner.pc))

\* parse_pointcut after let input = input.trim()
ParseTrimmed(inp) ==
    LET stripped == IF StartsWith(inp, <<"(">>) /\ EndsWith(inp, <<")">>)
                    THEN strip_outer_parens(inp)
                    ELSE [panic |-> FALSE, some |-> <<>>]
    IN IF stripped.panic THEN Panic
       ELSE IF stripped.some # <<>> THEN ParseTrimmed(trim(stripped.some[1]))
       ELSE IF StartsWith(inp, <<"!">>) THEN ParseNot(inp)
       ELSE IF find_operator(inp, OR_OPERATOR) # <<>>
       THEN ParseBinary(inp, find_operator(inp, OR_OPERATOR)[1], "Or")
       ELSE IF find_operator(inp, AND_OPERATOR) # <<>>
       THEN ParseBinary(inp, find_operator(inp, AND_OPERATOR)[1], "And")
       ELSE ParseBasic(inp)

parse_pointcut(inp) == ParseTrimmed(trim(inp))

----------------------------------------------------------------------------
(* The parser on bounded inputs, under SpecParse: claims C9 to C14 *)

\* The number of pieces a raw input string is made of, at most.
MaxPieces == 3

\* The pieces the raw input strings are made of.
Pieces ==
    {WITHIN_OPEN, EXECUTION_OPEN \o FN_SPACE, <<"a">>, <<E_ACUTE>>, <<"*">>,
     <<"(", ".", ".", ")">>, <<"(">>, <<")">>, OR_OPERATOR, AND_OPERATOR, <<"!">>}

RECURSIVE Concat(_)
Concat(ss) == IF ss = <<>> THEN <<>> ELSE ss[1] \o Concat(Tail(ss))

\* Every string of at most MaxPieces pieces, well-formed or not.
RawInputs == {Concat(ps) : ps \in UNION {[1..n -> Pieces] : n \in 0..MaxPieces}}

PRIM_WITHIN_M == <<"w", "i", "t", "h", "i", "n", "(", "m", ")">>
PRIM_WITHIN_E == <<"w", "i", "t", "h", "i", "n", "(", E_ACUTE, ")">>
PRIM_EXEC_A == <<"e", "x", "e", "c", "u", "t", "i", "o", "n", "(", "f", "n", " ", "a", "(", ".", ".", ")", ")">>
PRIM_PUB_ANY == <<"e", "x", "e", "c", "u", "t", "i", "o", "n", "(", "p", "u", "b", " ", "f", "n", " ", "*", "(", ".", ".", ")", ")">>

\* Primitive pointcuts.
Prims == {PRIM_WITHIN_M, PRIM_WITHIN_E, PRIM_EXEC_A, PRIM_PUB_ANY}

\* The pointcut each primitive denotes.
PrimAst(prim) ==
    CASE prim = PRIM_WITHIN_M -> Within(<<"m">>)
      [] prim = PRIM_WITHIN_E -> Within(<<E_ACUTE>>)
      [] prim = PRIM_EXEC_A -> Execution(<<>>, NameVariant("Exact", <<"a">>), <<>>)
      [] prim = PRIM_PUB_ANY -> public_functions

Operators == {OR_OPERATOR, AND_OPERATOR}

\* a op1 b op2 c without parentheses
ChainInputs ==
    {a \o op1 \o b \o op2 \o c : a \in Prims, b \in Prims, c \in Prims,
                                   op1 \in Operators, op2 \in Operators}

\* (a op1 b) op2 c and a op1 (b op2 c)
GroupInputs ==
    {<<"(">> \o a \o op1 \o b \o <<")">> \o op2 \o c :
        a \in Prims, b \in Prims, c \in Prims, op1 \in Operators, op2 \in Operators}
    \cup {a \o op1 \o <<"(">> \o b \o op2 \o c \o <<")">> :
        a \in Prims, b \in Prims, c \in Prims, op1 \in Operators, op2 \in Operators}

NOT_EXAMPLE ==
    <<"!", "w", "i", "t", "h", "i", "n", "(", "a", ")", " ", "&", "&", " ",
      "w", "i", "t", "h", "i", "n", "(", "b", ")">>

\* !a op b, (!a op b), !(a) op b and ! a
NotInputs ==
    {NOT_EXAMPLE}
    \cup {<<"!">> \o a \o op \o b : a \in Prims, b \in Prims, op \in Operators}
    \cup {<<"(", "!">> \o a \o op \o b \o <<")">> : a \in Prims, b \in Prims, op \in Operators}
    \cup {<<"!", "(">> \o a \o <<")">> \o op \o b : a \in Prims, b \in Prims, op \in Operators}
    \cup {<<"!", " ">> \o a : a \in Prims}

\* The number of characters of the name of an execution primitive, at most.
MaxNameLen == 3

NameChars == {"a", "*", E_ACUTE}

\* Every name of at most MaxNameLen characters, the empty one included.
NameTexts == UNION {[1..n -> NameChars] : n \in 0..MaxNameLen}

\* The visibility keywords of an execution primitive, and none.
VisKeywords == {<<>>, PUB_SPACE, PUB_CRATE_SPACE, PUB_SUPER_SPACE}

SIGNATURE == <<"(", ".", ".", ")">>

\* execution(<vis>fn <name>(..))
ExecText(vis, name) == EXECUTION_OPEN \o vis \o FN_SPACE \o name \o SIGNATURE \o <<")">>

ExecInputs == {ExecText(vis, name) : vis \in VisKeywords, name \in NameTexts}

\* execution(<vis><name>(..)), without the fn keyword
NoFnInputs ==
    {EXECUTION_OPEN \o vis \o name \o SIGNATURE \o <<")">> :
        vis \in VisKeywords, name \in NameTexts \ {<<>>}}

\* within() and within( ): no module path
EmptyPathInputs == {WITHIN_OPEN \o <<")">>, WITHIN_OPEN \o <<" ", ")">>}

\* One parenthesis too many or too few around or inside a primitive.
UnbalancedInputs ==
    UNION {{a \o <<")">>, <<"(">> \o a, SubSeq(a, 1, Len(a) - 1), <<")">> \o a \o <<"(">>} :
                a \in Prims}

MaxWraps == 2

\* The text e inside k pairs of parentheses: format!("({})", expr), k times.
RECURSIVE InParens(_, _)
InParens(e, k) == IF k = 0 THEN e ELSE <<"(">> \o InParens(e, k - 1) \o <<")">>

\* An execution primitive inside 1..MaxWraps pairs of parentheses.
WrappedInputs == {InParens(e, k) : e \in ExecInputs, k \in 1..MaxWraps}

ParseInputs ==
    RawInputs \cup Prims \cup ChainInputs \cup GroupInputs \cup NotInputs
    \cup ExecInputs \cup NoFnInputs \cup EmptyPathInputs \cup UnbalancedInputs
    \cup WrappedInputs

\* The variables the parser leaves alone.
notParse == <<regVars, callVars, concVars, matchVars, breakerVars, limiterVars, applyVars>>

InitParse ==
    /\ RegistryEmpty
    /\ CallIdle
    /\ ConcIdle
    /\ MatchIdle
    /\ BreakerIdle
    /\ LimiterIdle
    /\ ApplyIdle
    /\ input \in ParseInputs
    /\ parsed = <<>>

\* parse_pointcut(input) is called.
Parse ==
    /\ parsed = <<>>
    /\ parsed' = <<parse_pointcut(input)>>
    /\ UNCHANGED <<input, notParse>>

NextParse == Parse

SpecParse == InitParse /\ [][NextParse]_vars

\* C9: parse_pointcut returns Ok or Err on every input string and never panics.
C9_NeverPanics == parsed # <<>> => parsed[1].kind \in {"Ok", "Err"}

IsAscii(s) == \A i \in 1..Len(s) : Utf8Len(s[i]) = 1

\* C10: the parse of a || b && c is Or(a, And(b, c)) and the parse of
\* a && b || c is Or(And(a, b), c), for all primitives a, b, c.
C10_AndBindsTighter ==
    parsed # <<>>
    => \A a \in Prims, b \in Prims, c \in Prims :
        /\ input = a \o OR_OPERATOR \o b \o AND_OPERATOR \o c
            => parsed[1] = ParseOk(Or(PrimAst(a), And(PrimAst(b), PrimAst(c))))
        /\ input = a \o AND_OPERATOR \o b \o OR_OPERATOR \o c
            => parsed[1] = ParseOk(Or(And(PrimAst(a), PrimAst(b)), PrimAst(c)))

\* The same statement for the primitives made of one-byte characters only, where
\* the index find_operator returns is also the byte offset: this part holds.
AndBindsTighterOnAscii ==
    parsed # <<>>
    => \A a \in Prims, b \in Prims, c \in Prims :
        (IsAscii(a) /\ IsAscii(b) /\ IsAscii(c))
        => /\ input = a \o OR_OPERATOR \o b \o AND_OPERATOR \o c
                => parsed[1] = ParseOk(Or(PrimAst(a), And(PrimAst(b), PrimAst(c))))
           /\ input = a \o AND_OPERATOR \o b \o OR_OPERATOR \o c
                => parsed[1] = ParseOk(Or(And(PrimAst(a), PrimAst(b)), PrimAst(c)))

\* On strings of one-byte characters parse_pointcut never panics.
NeverPanicsOnAscii == (parsed # <<>> /\ IsAscii(input)) => parsed[1].kind \in {"Ok", "Err"}

\* The pointcut a binary operator builds.
OpAst(op, l, r) == IF op = OR_OPERATOR THEN Or(l, r) ELSE And(l, r)

\* C11: parentheses override precedence: (a op1 b) op2 c parses as
\* op2(op1(a, b), c) and a op1 (b op2 c) as op1(a, op2(b, c)), for all
\* primitives a, b, c; in particular (a || b) && c is And(Or(a, b), c), so an
\* operator inside a group is never the split point of the enclosing expression.
C11_ParensOverride ==
    parsed # <<>>
    => \A a \in Prims, b \in Prims, c \in Prims, op1 \in Operators, op2 \in Operators :
        /\ input = <<"(">> \o a \o op1 \o b \o <<")">> \o op2 \o c
            => parsed[1] = ParseOk(OpAst(op2, OpAst(op1, PrimAst(a), PrimAst(b)), PrimAst(c)))
        /\ input = a \o op1 \o <<"(">> \o b \o op2 \o c \o <<")">>
            => parsed[1] = ParseOk(OpAst(op1, PrimAst(a), OpAst(op2, PrimAst(b), PrimAst(c))))

\* The same statement for the primitives made of one-byte characters only: this
\* part holds.
ParensOverrideOnAscii ==
    parsed # <<>>
    => \A a \in Prims, b \in Prims, c \in Prims, op1 \in Operators, op2 \in Operators :
        (IsAscii(a) /\ IsAscii(b) /\ IsAscii(c))
        => /\ input = <<"(">> \o a \o op1 \o b \o <<")">> \o op2 \o c
                => parsed[1] = ParseOk(OpAst(op2, OpAst(op1, PrimAst(a), PrimAst(b)), PrimAst(c)))
           /\ input = a \o op1 \o <<"(">> \o b \o op2 \o c \o <<")">>
                => parsed[1] = ParseOk(OpAst(op1, PrimAst(a), OpAst(op2, PrimAst(b), PrimAst(c))))

\* The input after trimming and after every pair of balanced outer parentheses
\* is stripped.
RECURSIVE Stripped(_)
Stripped(t) ==
    IF strip_outer_parens(t).some # <<>>
    THEN Stripped(trim(strip_outer_parens(t).some[1]))
    ELSE t

\* Not applied to an outcome: Not(p) of Ok(p), and every other outcome as it is.
NotOf(r) == IF r.kind = "Ok" THEN ParseOk(Not(r.pc)) ELSE r

VisOf(vis) ==
    CASE vis = PUB_SPACE -> <<"Public">>
      [] vis = PUB_CRATE_SPACE -> <<"Crate">>
      [] vis = PUB_SUPER_SPACE -> <<"Super">>
      [] vis = <<>> -> <<>>

\* The classification of a name by its stars alone.
ByStars(name) ==
    IF name = <<"*">> THEN Wildcard
    ELSE IF name[1] = "*" /\ name[Len(name)] = "*"
    THEN NameVariant("Contains", SubSeq(name, 2, Len(name) - 1))
    ELSE IF name[1] = "*" THEN NameVariant("Suffix", Tail(name))
    ELSE IF name[Len(name)] = "*" THEN NameVariant("Prefix", SubSeq(name, 1, Len(name) - 1))
    ELSE NameVariant("Exact", name)

\* The classification by the stars, but for the name ** which is Suffix("*").
ByStarsButTwo(name) ==
    IF name = <<"*", "*">> THEN NameVariant("Suffix", <<"*">>) ELSE ByStars(name)

\* C13 as stated: execution(<vis>fn <name>(..)) is Execution with the visibility
\* of the keyword, no return type, and the name classified by its stars, for
\* every name, ** included.
C13_ExecutionByStars ==
    parsed # <<>>
    => \A vis \in VisKeywords, name \in NameTexts \ {<<>>} :
        input = ExecText(vis, name)
        => parsed[1] = ParseOk(Execution(VisOf(vis), ByStars(name), <<>>))

\* C13: execution(<vis>fn <name>(..)) is Execution with the visibility of the
\* keyword, no return type, and the name classified by its stars: a leading and
\* a trailing star is Contains only when the name is longer than two bytes, and
\* the name ** is Suffix("*").
C13_ExecutionShape ==
    parsed # <<>>
    => \A vis \in VisKeywords, name \in NameTexts \ {<<>>} :
        input = ExecText(vis, name)
        => parsed[1] = ParseOk(Execution(VisOf(vis), ByStarsButTwo(name), <<>>))

\* execution(pub(crate) fn **(..)) has been parsed, and so has a name with a
\* star on both sides of a two-byte character.
C13_Witness ==
    /\ parsed # <<>>
    /\ \/ /\ input = ExecText(PUB_CRATE_SPACE, <<"*", "*">>)
          /\ parsed[1] = ParseOk(Execution(<<"Crate">>, NameVariant("Suffix", <<"*">>), <<>>))
       \/ /\ input = ExecText(PUB_SPACE, <<"*", E_ACUTE, "*">>)
          /\ parsed[1] = ParseOk(Execution(<<"Public">>, NameVariant("Contains", <<E_ACUTE>>), <<>>))

\* The parentheses of s are unbalanced.
Unbalanced(s) == ParenDepth(s, 0) # 0

\* C14: a malformed input never parses to Ok: one with unbalanced parentheses,
\* an execution primitive without the fn keyword, one with an empty name, or a
\* within primitive with an empty module path.
C14_MalformedRejected ==
    (/\ parsed # <<>>
     /\ \/ Unbalanced(input)
        \/ input \in NoFnInputs
        \/ input \in {ExecText(vis, <<>>) : vis \in VisKeywords}
        \/ input \in EmptyPathInputs)
    => parsed[1].kind # "Ok"

\* The part of it that holds: an execution primitive without the fn keyword is
\* rejected.
MissingKeywordRejected == (parsed # <<>> /\ input \in NoFnInputs) => parsed[1].kind = "Err"

----------------------------------------------------------------------------
(* The matcher on bounded pointcuts and functions, under SpecMatch: claims   *)
(* C15 to C18                                                                *)

PATH_A == <<"a">>
PATH_A_B == <<"a", ":", ":", "b">>
PATH_A_B_C == <<"a", ":", ":", "b", ":", ":", "c">>
PATH_A_BC == <<"a", ":", ":", "b", "c">>
PATH_A_B_COLON == <<"a", ":", ":", "b", ":">>

ModulePaths == {PATH_A, PATH_A_B, PATH_A_B_C, PATH_A_BC, PATH_A_B_COLON}

\* The visibility tags of a FunctionInfo: the four the matcher knows, and others.
PUB_IN_A == <<"p", "u", "b", "(", "i", "n", " ", "a", ")">>

VisibilityTags == {PUB, PUB_CRATE, PUB_SUPER, <<>>, PUB_IN_A, <<" ">>}

FunctionNames == {<<"a">>, <<"a", "b">>, <<"b", "a">>}

U8 == <<"u", "8">>
VEC_U8 == <<"V", "e", "c", "<", "u", "8", ">">>
UNIT_RESULT == <<"R", "e", "s", "u", "l", "t", "<", "(", ")", ">">>

\* Every FunctionInfo::new(..), with and without with_return_type(..).
MatchFunctions ==
    LET new == {FunctionInfo(name, module_path, visibility) :
                    name \in FunctionNames, module_path \in ModulePaths,
                    visibility \in VisibilityTags}
    IN new \cup {with_return_type(f, rt) : f \in new, rt \in {U8, VEC_U8, UNIT_RESULT}}

Visibilities == {"Public", "Crate", "Super", "Private"}

NamePatterns ==
    {Wildcard, NameVariant("Exact", <<"a">>), NameVariant("Prefix", <<"a">>),
     NameVariant("Suffix", <<"a">>), NameVariant("Contains", <<"b">>)}

\* What parse_pointcut returns for execution(fn a(..)): no visibility keyword.
ParsedNoVisibility == parse_pointcut(PRIM_EXEC_A).pc

\* The execution and within pointcuts.
BasicPointcuts ==
    {Execution(visibility, name, return_type) :
        visibility \in {<<>>} \cup {<<v>> : v \in Visibilities},
        name \in NamePatterns,
        return_type \in {<<>>, <<U8>>}}
    \cup {Within(path) : path \in ModulePaths}
    \cup {ParsedNoVisibility}

\* The nesting of And, Or and Not above the basic pointcuts, at most.
MaxNesting == 1

\* The basic pointcuts the combined ones are made of.
Leaves ==
    {public_functions, Within(PATH_A_B), Execution(<<>>, NameVariant("Prefix", <<"a">>), <<>>),
     Execution(<<"Private">>, Wildcard, <<>>)}

RECURSIVE Combined(_)
Combined(n) ==
    IF n = 0 THEN Leaves
    ELSE LET below == Combined(n - 1)
         IN below \cup {Not(p) : p \in below}
                  \cup {And(l, r) : l \in below, r \in below}
                  \cup {Or(l, r) : l \in below, r \in below}

\* Pointcuts of a deeper nesting.
DeeperPointcuts ==
    {Not(And(public_functions, Within(PATH_A_B))),
     Not(Not(Within(PATH_A_B))),
     Or(And(public_functions, Within(PATH_A_B)), Not(public_functions)),
     And(Or(public_functions, Within(PATH_A_B)), Not(Within(PATH_A_B)))}

\* The functions the combined pointcuts are matched with: each leaf matches
\* some of them and not the others.
CombinedFunctions ==
    {FunctionInfo(name, module_path, visibility) :
        name \in {<<"a">>, <<"b", "a">>}, module_path \in {PATH_A_B_C, PATH_A_BC},
        visibility \in {PUB, <<>>}}

\* The variables the matcher leaves alone.
notMatch == <<regVars, callVars, concVars, parseVars, breakerVars, limiterVars, applyVars>>

InitMatch ==
    /\ RegistryEmpty
    /\ CallIdle
    /\ ConcIdle
    /\ ParseIdle
    /\ BreakerIdle
    /\ LimiterIdle
    /\ ApplyIdle
    /\ \/ mPointcut \in BasicPointcuts /\ mFunction \in MatchFunctions
       \/ /\ mPointcut \in Combined(MaxNesting) \cup DeeperPointcuts
          /\ mFunction \in CombinedFunctions
    /\ matched = <<>>

\* pointcut.matches(&function) is called.
Match ==
    /\ matched = <<>>
    /\ matched' = <<Matches(mPointcut, mFunction)>>
    /\ UNCHANGED <<mPointcut, mFunction, notMatch>>

NextMatch == Match

SpecMatch == InitMatch /\ [][NextMatch]_vars

\* q is p followed by :: and some rest.
IsBelow(q, p) == \E k \in 0..Len(q) : q = (p \o <<":", ":">>) \o SubSeq(q, Len(q) - k + 1, Len(q))

\* C15: a within pointcut of path p matches a function of module path q iff
\* q = p or q is p followed by "::" and a rest; a::b matches a::b and a::b::c,
\* and neither a::bc nor a.
C15_ModulePathPrefix ==
    (matched # <<>> /\ mPointcut.tag = "Within")
    => /\ matched[1] = (\/ mFunction.module_path = mPointcut.pattern.path
                        \/ IsBelow(mFunction.module_path, mPointcut.pattern.path))
       /\ mPointcut = Within(PATH_A_B)
            => matched[1] = (mFunction.module_path \in {PATH_A_B, PATH_A_B_C})

\* within(a::b) has been matched with a function of a::b::c, and matches.
C15_Witness ==
    /\ matched = <<TRUE>>
    /\ mPointcut = Within(PATH_A_B)
    /\ mFunction.module_path = PATH_A_B_C

\* The one tag of each visibility.
TagOf(visibility) ==
    CASE visibility = "Public" -> <<"p", "u", "b">>
      [] visibility = "Crate" -> <<"p", "u", "b", "(", "c", "r", "a", "t", "e", ")">>
      [] visibility = "Super" -> <<"p", "u", "b", "(", "s", "u", "p", "e", "r", ")">>
      [] visibility = "Private" -> <<>>

\* C16: a pattern whose only constraint is a visibility matches a function iff
\* the function's tag is the one tag of that visibility; Public does not match
\* a function tagged pub(crate).
C16_VisibilityExact ==
    matched # <<>>
    => \A v \in Visibilities :
        mPointcut = Execution(<<v>>, Wildcard, <<>>)
        => /\ matched[1] = (mFunction.visibility = TagOf(v))
           /\ (v = "Public" /\ mFunction.visibility = TagOf("Crate")) => matched[1] = FALSE

\* A pattern requiring Public has been matched with a function tagged
\* pub(crate), and does not match.
C16_Witness ==
    /\ matched = <<FALSE>>
    /\ mPointcut = public_functions
    /\ mFunction.visibility = PUB_CRATE

\* C17: an execution pattern matches a function iff its visibility is unset or
\* matches the function's tag, its name pattern matches the function's name,
\* and its return type is unset or is contained in the return type the function
\* has; the pattern parsed from execution(fn a(..)) matches the functions named
\* a of every visibility.
C17_ExecutionMatch ==
    (matched # <<>> /\ mPointcut.tag = "Execution")
    => /\ matched[1] =
            (/\ \/ mPointcut.pattern.visibility = <<>>
                \/ VisibilityMatches(mPointcut.pattern.visibility[1], mFunction.visibility)
             /\ NamePatternMatches(mPointcut.pattern.name, mFunction.name)
             /\ \/ mPointcut.pattern.return_type = <<>>
                \/ /\ mFunction.return_type # <<>>
                   /\ Contains(mFunction.return_type[1], mPointcut.pattern.return_type[1]))
       /\ (mPointcut = ParsedNoVisibility /\ mFunction.name = <<"a">>) => matched[1] = TRUE

\* The pattern parsed from execution(fn a(..)) has been matched with a private
\* function named a, and matches; or a pattern with a return type has been
\* matched with a function whose return type contains it.
C17_Witness ==
    /\ matched = <<TRUE>>
    /\ \/ /\ mPointcut = ParsedNoVisibility
          /\ mFunction.name = <<"a">>
          /\ mFunction.visibility = <<>>
       \/ /\ mPointcut = Execution(<<"Private">>, Wildcard, <<U8>>)
          /\ mFunction.return_type = <<VEC_U8>>

\* C18: And(l, r) matches iff l matches and r matches, Or(l, r) iff l matches or
\* r matches, Not(p) iff p does not match.
C18_BooleanComposition ==
    matched # <<>>
    => /\ mPointcut.tag = "And"
            => matched[1] = (Matches(mPointcut.left, mFunction) /\ Matches(mPointcut.right, mFunction))
       /\ mPointcut.tag = "Or"
            => matched[1] = (Matches(mPointcut.left, mFunction) \/ Matches(mPointcut.right, mFunction))
       /\ mPointcut.tag = "Not"
            => matched[1] = ~Matches(mPointcut.inner, mFunction)

\* A negation of a conjunction whose left side matches and whose right side
\* does not has been matched, and matches.
C18_Witness ==
    /\ matched = <<TRUE>>
    /\ mPointcut = Not(And(public_functions, Within(PATH_A_B)))
    /\ mFunction = FunctionInfo(<<"a">>, PATH_A_BC, PUB)

----------------------------------------------------------------------------
(* The chain of apply_aspects again, under Spec: claims C19 and C20 *)

\* The around of layer k has returned without consuming its continuation.
Denied(k) == LayerEvents({"return"}, k) # <<>> /\ LayerEvents({"proceed"}, k) = <<>>

\* C19: when the around of a layer returns without proceeding, no advice of a
\* layer further in and no run of the original computation is in the log of the
\* call, and every layer further out returns the result that around returned,
\* which is also what apply_aspects returns.
C19_DenialSkipsInner ==
    \A k \in 1..Len(chain) :
        Denied(k)
        => /\ \A i \in 1..Len(log) : log[i].ev # "orig" /\ log[i].layer <= k
           /\ \A i \in 1..Len(log) :
                log[i].ev = "return" => log[i].res = LayerEvents({"return"}, k)[1].res
           /\ Returned => result = LayerEvents({"return"}, k)[1].res

\* A call through three layers has returned after the rate limiter in the
\* middle denied it: the outer default around has seen the error.
C19_Witness ==
    /\ Returned
    /\ Len(chain) = 3
    /\ chain[1].kind = "default" /\ chain[2].kind = "ratelimit"
    /\ Denied(2)
    /\ LayerEvents({"after_error"}, 1) # <<>>
    /\ result = <<RateLimitError>>

\* C20: every advice and every around of the chain is called with the JoinPoint
\* of the continuation the caller supplied: its function name, module path and
\* source location, at every layer.
C20_CallerJoinPoint ==
    \A i \in 1..Len(log) :
        log[i].ev # "orig" => log[i].ctx = <<CallerJoinPoint(function[1])>>

\* What does hold: every layer sees the function name and the module path of
\* the call, and the innermost layer sees the caller's JoinPoint.
NameAndModuleSeen ==
    \A i \in 1..Len(log) :
        log[i].ev # "orig"
        => /\ log[i].ctx[1].function_name = function[1].name
           /\ log[i].ctx[1].module_path = function[1].module_path
           /\ log[i].layer = Len(chain) => log[i].ctx[1] = CallerJoinPoint(function[1])

----------------------------------------------------------------------------
(* The circuit breaker (aspect-std/src/circuitbreaker.rs) with concurrent    *)
(* callers, under SpecBreaker: claims C21 to C24 and C28                     *)

\* CircuitState: Closed, Open { until }, HalfOpen. The field until is 0 unless
\* the circuit is Open.
Closed == [tag |-> "Closed", until |-> 0]

Open(until) == [tag |-> "Open", until |-> until]

HalfOpen == [tag |-> "HalfOpen", until |-> 0]

\* CircuitBreakerAspect::new
CircuitBreakerNew(failure_threshold, timeout) ==
    [circuit_state |-> Closed,
     failure_count |-> 0,
     success_count |-> 0,
     failure_threshold |-> failure_threshold,
     timeout |-> timeout,
     half_open_max_requests |-> 1]

with_half_open_requests(self, max_requests) ==
    [self EXCEPT !.half_open_max_requests = max_requests]

reset(state) ==
    [state EXCEPT !.circuit_state = Closed, !.failure_count = 0, !.success_count = 0]

\* record_success that leaves the failure count alone while Closed: not what
\* the breaker does.
record_success_keeps_count(state) ==
    CASE state.circuit_state.tag = "HalfOpen" ->
            IF state.success_count + 1 >= state.half_open_max_requests
            THEN [state EXCEPT !.circuit_state = Closed, !.failure_count = 0,
                               !.success_count = 0]
            ELSE [state EXCEPT !.success_count = state.success_count + 1]
      [] state.circuit_state.tag = "Closed" -> state
      [] state.circuit_state.tag = "Open" ->
            [state EXCEPT !.failure_count = 0, !.success_count = 0]

record_success(state) ==
    CASE state.circuit_state.tag = "HalfOpen" ->
            IF state.success_count + 1 >= state.half_open_max_requests
            THEN [state EXCEPT !.circuit_state = Closed, !.failure_count = 0,
                               !.success_count = 0]
            ELSE [state EXCEPT !.success_count = state.success_count + 1]
      [] state.circuit_state.tag = "Closed" -> [state EXCEPT !.failure_count = 0]
      [] state.circuit_state.tag = "Open" ->
            [state EXCEPT !.failure_count = 0, !.success_count = 0]

\* record_failure that closes the circuit on a failure while HalfOpen: not what
\* the breaker does.
record_failure_closes(state, now) ==
    CASE state.circuit_state.tag = "HalfOpen" ->
            [state EXCEPT !.circuit_state = Closed, !.success_count = 0]
      [] state.circuit_state.tag = "Closed" ->
            IF state.failure_count + 1 >= state.failure_threshold
            THEN [state EXCEPT !.failure_count = state.failure_count + 1,
                               !.circuit_state = Open(now + state.timeout)]
            ELSE [state EXCEPT !.failure_count = state.failure_count + 1]
      [] state.circuit_state.tag = "Open" -> state

record_failure(state, now) ==
    CASE state.circuit_state.tag = "HalfOpen" ->
            [state EXCEPT !.circuit_state = Open(now + state.timeout), !.success_count = 0]
      [] state.circuit_state.tag = "Closed" ->
            IF state.failure_count + 1 >= state.failure_threshold
            THEN [state EXCEPT !.failure_count = state.failure_count + 1,
                               !.circuit_state = Open(now + state.timeout)]
            ELSE [state EXCEPT !.failure_count = state.failure_count + 1]
      [] state.circuit_state.tag = "Open" -> state

CircuitOpenError == Err("Circuit breaker is OPEN - failing fast")

\* should_allow_request that lets a request through an Open circuit before the
\* timeout: not what the breaker does.
should_allow_request_early(state, now) ==
    CASE state.circuit_state.tag = "Closed" -> [state |-> state, allowed |-> TRUE]
      [] state.circuit_state.tag = "HalfOpen" -> [state |-> state, allowed |-> TRUE]
      [] state.circuit_state.tag = "Open" ->
            [state |-> [state EXCEPT !.circuit_state = HalfOpen, !.success_count = 0],
             allowed |-> TRUE]

\* should_allow_request: the state it leaves, and whether it returned Ok(())
should_allow_request(state, now) ==
    CASE state.circuit_state.tag = "Closed" -> [state |-> state, allowed |-> TRUE]
      [] state.circuit_state.tag = "HalfOpen" -> [state |-> state, allowed |-> TRUE]
      [] state.circuit_state.tag = "Open" ->
            IF now >= state.circuit_state.until
            THEN [state |-> [state EXCEPT !.circuit_state = HalfOpen, !.success_count = 0],
                  allowed |-> TRUE]
            ELSE [state |-> state, allowed |-> FALSE]

\* The failure thresholds, timeouts (in ticks) and half-open limits of the
\* breakers, and the ticks the clock counts, at most.
MaxThreshold == 2

MaxTimeout == 2

MaxHalfOpen == 2

MaxTime == 2

\* A caller of the breaker: where it is in around, what its last call returned,
\* and which arm of record_success or record_failure that call ran.
CallerIdle == [pc |-> "idle", result |-> <<>>, recorded |-> <<>>]

Recorded(what, state) == <<[what |-> what, in |-> state.circuit_state.tag]>>

\* A counter of the history, which stops counting at cap.
Saturating(n, cap) == IF n < cap THEN n + 1 ELSE n

\* The last three states of the circuit, after it went from state to next.
Trail(state, next) ==
    IF state.circuit_state.tag = next.circuit_state.tag THEN observed.trail
    ELSE LET all == Append(observed.trail, next.circuit_state.tag)
         IN SubSeq(all, IF Len(all) > 3 THEN Len(all) - 2 ELSE 1, Len(all))

\* The history after an operation took the circuit from state to next:
\*   streak   - the failures recorded while Closed since the circuit was last
\*              put in Closed and since the last success recorded while Closed
\*   admitted - the requests should_allow_request let through since the circuit
\*              last became HalfOpen (0 unless it is HalfOpen)
\*   trail    - the last three states of the circuit
Observe(state, next, op) ==
    [streak |->
        IF next.circuit_state.tag = "Closed" /\ (op # "record_failure" \/ state.circuit_state.tag # "Closed")
        THEN (IF op = "should_allow_request" THEN observed.streak ELSE 0)
        ELSE IF op = "record_failure" /\ state.circuit_state.tag = "Closed"
        THEN Saturating(observed.streak, MaxThreshold + 1)
        ELSE observed.streak,
     admitted |->
        IF next.circuit_state.tag # "HalfOpen" THEN 0
        ELSE IF op # "should_allow_request" THEN observed.admitted
        ELSE IF state.circuit_state.tag = "Open" THEN 1
        ELSE Saturating(observed.admitted, MaxHalfOpen + NumThreads + 1),
     trail |-> Trail(state, next)]

\* The variables the breaker leaves alone.
notBreaker == <<regVars, callVars, concVars, parseVars, matchVars, limiterVars, applyVars>>

\* A breaker made by new(..).with_half_open_requests(..), and no call yet.
InitBreaker ==
    /\ RegistryEmpty
    /\ CallIdle
    /\ ParseIdle
    /\ MatchIdle
    /\ ConcIdle
    /\ \E failure_threshold \in 0..MaxThreshold, timeout \in 1..MaxTimeout,
          max_requests \in 1..MaxHalfOpen :
            circuit = with_half_open_requests(CircuitBreakerNew(failure_threshold, timeout),
                                              max_requests)
    /\ clock = 0
    /\ callers = [t \in Threads |-> CallerIdle]
    /\ LimiterIdle
    /\ ApplyIdle
    /\ observed = [streak |-> 0, admitted |-> 0, trail |-> <<"Closed">>]

\* Time passes.
Tick ==
    /\ clock < MaxTime
    /\ clock' = clock + 1
    /\ UNCHANGED <<circuit, callers, observed, notBreaker>>

\* around, first statement: self.should_allow_request()?, which returns the
\* error to the caller of around or lets the call go on to pjp.proceed().
ShouldAllowRequest(t) ==
    /\ callers[t].pc = "idle"
    /\ LET answer == should_allow_request(circuit, clock)
       IN /\ circuit' = answer.state
          /\ callers' = [callers EXCEPT ![t] =
                IF answer.allowed
                THEN [pc |-> "proceed", result |-> <<>>, recorded |-> <<>>]
                ELSE [pc |-> "idle", result |-> <<CircuitOpenError>>, recorded |-> <<>>]]
          /\ observed' = Observe(circuit, answer.state, "should_allow_request")
    /\ UNCHANGED <<clock, notBreaker>>

\* pjp.proceed(): the wrapped function runs and returns Ok or Err.
Proceed(t, o) ==
    /\ callers[t].pc = "proceed"
    /\ callers' = [callers EXCEPT ![t] =
            [pc |-> IF o.ok THEN "success" ELSE "failure", result |-> <<o>>, recorded |-> <<>>]]
    /\ UNCHANGED <<circuit, clock, observed, notBreaker>>

\* The Ok arm of around: record_success, then the result is returned.
RecordSuccess(t) ==
    /\ callers[t].pc = "success"
    /\ circuit' = record_success(circuit)
    /\ callers' = [callers EXCEPT ![t] =
            [pc |-> "idle", result |-> callers[t].result,
             recorded |-> Recorded("success", circuit)]]
    /\ observed' = Observe(circuit, circuit', "record_success")
    /\ UNCHANGED <<clock, notBreaker>>

\* The Err arm of around: record_failure, then the error is returned.
RecordFailure(t) ==
    /\ callers[t].pc = "failure"
    /\ circuit' = record_failure(circuit, clock)
    /\ callers' = [callers EXCEPT ![t] =
            [pc |-> "idle", result |-> callers[t].result,
             recorded |-> Recorded("failure", circuit)]]
    /\ observed' = Observe(circuit, circuit', "record_failure")
    /\ UNCHANGED <<clock, notBreaker>>

\* reset(), called by anyone at any time
Reset ==
    /\ circuit' = reset(circuit)
    /\ circuit' # circuit
    /\ observed' = Observe(circuit, circuit', "reset")
    /\ UNCHANGED <<clock, callers, notBreaker>>

NextBreaker ==
    \/ Tick
    \/ \E t \in Threads : ShouldAllowRequest(t)
    \/ \E t \in Threads, o \in Outcomes : Proceed(t, o)
    \/ \E t \in Threads : RecordSuccess(t)
    \/ \E t \in Threads : RecordFailure(t)
    \/ Reset

SpecBreaker == InitBreaker /\ [][NextBreaker]_vars

\* C21: a breaker of failure threshold N >= 1 starts Closed, and it is Closed
\* exactly as long as fewer than N failures were recorded in a row (no success in
\* between) since it was last put in Closed: the N-th failure in a row opens it,
\* and a success recorded while Closed starts the count again.
C21_OpensAtThreshold ==
    circuit.failure_threshold >= 1
    => /\ (circuit.circuit_state.tag = "Closed") <=> (observed.streak < circuit.failure_threshold)
       /\ circuit.circuit_state.tag = "Closed" => circuit.failure_count = observed.streak
       /\ (observed.trail = <<"Closed">> /\ observed.streak = 0) => circuit.circuit_state = Closed

\* A breaker of threshold 2 has gone from Closed to Open with two failures
\* recorded in a row: the caller that recorded the last one found it Closed.
C21_Witness ==
    /\ circuit.failure_threshold = 2
    /\ circuit.circuit_state.tag = "Open"
    /\ observed.trail = <<"Closed", "Open">>
    /\ observed.streak = 2
    /\ \E t \in Threads : callers[t].recorded = <<[what |-> "failure", in |-> "Closed"]>>

\* The step is caller t's call of around, made while the circuit is Open and
\* its timeout has not elapsed.
CallsWhileOpen(t) ==
    /\ callers[t].pc = "idle"
    /\ callers'[t] # callers[t]
    /\ circuit.circuit_state.tag = "Open"
    /\ clock < circuit.circuit_state.until

\* C22: a call of around made while the circuit is Open and its timeout has not
\* elapsed returns the error at once: the caller does not go on to the wrapped
\* function, and the state and the counters of the circuit stay as they are.
C22_FailsFastWhileOpen ==
    [][\A t \in Threads :
        CallsWhileOpen(t)
        => /\ callers'[t] = [pc |-> "idle", result |-> <<CircuitOpenError>>, recorded |-> <<>>]
           /\ circuit' = circuit]_vars

\* A caller has been turned away by an Open circuit whose timeout has not
\* elapsed.
C22_Witness ==
    /\ circuit.circuit_state.tag = "Open"
    /\ clock < circuit.circuit_state.until
    /\ \E t \in Threads : callers[t] = [pc |-> "idle", result |-> <<CircuitOpenError>>,
                                          recorded |-> <<>>]

\* The step is caller t recording what (a success or a failure).
Records(t, what) == callers[t].pc = what /\ callers'[t].pc = "idle"

\* C23: the circuit changes state only from Closed to Open (a failure is
\* recorded and the failure count reaches the threshold), from Open to HalfOpen
\* (a request arrives when the timeout has elapsed, and is let through), from
\* HalfOpen to Closed with both counters zero (a success is recorded and the
\* successes reach half_open_max_requests), from HalfOpen to Open (a failure is
\* recorded), and from any state to Closed with both counters zero by reset.
C23_Transitions ==
    [][circuit'.circuit_state.tag # circuit.circuit_state.tag
        => \/ /\ circuit.circuit_state.tag = "Closed"
              /\ circuit'.circuit_state.tag = "Open"
              /\ \E t \in Threads : Records(t, "failure")
              /\ circuit'.failure_count >= circuit.failure_threshold
           \/ /\ circuit.circuit_state.tag = "Open"
              /\ circuit'.circuit_state.tag = "HalfOpen"
              /\ clock >= circuit.circuit_state.until
              /\ \E t \in Threads : callers[t].pc = "idle" /\ callers'[t].pc = "proceed"
           \/ /\ circuit.circuit_state.tag = "HalfOpen"
              /\ circuit'.circuit_state.tag = "Closed"
              /\ \E t \in Threads : Records(t, "success")
              /\ circuit.success_count + 1 >= circuit.half_open_max_requests
              /\ circuit'.failure_count = 0 /\ circuit'.success_count = 0
           \/ /\ circuit.circuit_state.tag = "HalfOpen"
              /\ circuit'.circuit_state.tag = "Open"
              /\ \E t \in Threads : Records(t, "failure")
           \/ /\ circuit'.circuit_state.tag = "Closed"
              /\ callers' = callers
              /\ circuit'.failure_count = 0 /\ circuit'.success_count = 0]_vars

\* The circuit has gone from Open to HalfOpen and, with a recorded success, on
\* to Closed.
C23_Witness ==
    /\ observed.trail = <<"Open", "HalfOpen", "Closed">>
    /\ circuit.failure_count = 0 /\ circuit.success_count = 0
    /\ \E t \in Threads : callers[t].recorded = <<[what |-> "success", in |-> "HalfOpen"]>>

\* C24: while the circuit is HalfOpen, the requests let through to the wrapped
\* function since it became HalfOpen are at most half_open_max_requests.
C24_HalfOpenAdmitsAtMost ==
    circuit.circuit_state.tag = "HalfOpen"
    => observed.admitted <= circuit.half_open_max_requests

\* Callers that take turns, each call of around finished before the next one
\* starts, are let through at most half_open_max_requests times.
OneAtATime == \A t, u \in Threads : (callers[t].pc # "idle" /\ callers[u].pc # "idle") => t = u

HalfOpenAdmitsAtMostInTurns ==
    [][(OneAtATime /\ OneAtATime' /\ C24_HalfOpenAdmitsAtMost) => C24_HalfOpenAdmitsAtMost']_vars

\* C28: no call of around runs record_success while the circuit is Open.
C28_NoSuccessWhileOpen ==
    \A t \in Threads : callers[t].recorded # <<[what |-> "success", in |-> "Open"]>>

\* The text t without the pairs of parentheses around it: InParens(e, k) gives e.
RECURSIVE Unwrapped(_)
Unwrapped(t) ==
    IF Len(t) >= 2 /\ t[1] = "(" /\ t[Len(t)] = ")" THEN Unwrapped(SubSeq(t, 2, Len(t) - 1))
    ELSE t

\* C26: an execution primitive that parses, put inside k pairs of parentheses,
\* parses to the same result as the primitive alone, for every k up to MaxWraps.
C26_ParensAroundPrimitive ==
    LET e == Unwrapped(input)
    IN (parsed # <<>> /\ e \in ExecInputs /\ parse_pointcut(e).kind = "Ok")
       => /\ parsed[1] = parse_pointcut(e)
          /\ parsed[1].pc.tag = "Execution"

\* execution(pub fn a*(..)) inside MaxWraps pairs of parentheses has been
\* parsed.
C26_Witness ==
    /\ input = InParens(ExecText(PUB_SPACE, <<"a", "*">>), MaxWraps)
    /\ parsed = <<ParseOk(Execution(VisOf(PUB_SPACE), NameVariant("Prefix", <<"a">>), <<>>))>>

\* Every Exact, Prefix, Suffix and Contains of the pointcut carries some text.
RECURSIVE PayloadsNonEmpty(_)
PayloadsNonEmpty(pc) ==
    CASE pc.tag = "Execution" ->
            pc.pattern.name.variant = "Wildcard" \/ pc.pattern.name.s # <<>>
      [] pc.tag = "Within" -> TRUE
      [] pc.tag \in {"And", "Or"} -> PayloadsNonEmpty(pc.left) /\ PayloadsNonEmpty(pc.right)
      [] pc.tag = "Not" -> PayloadsNonEmpty(pc.inner)

\* C27: in every pointcut parse_pointcut returns, the text of each Exact,
\* Prefix, Suffix and Contains name pattern is non-empty.
C27_PayloadsNonEmpty ==
    (parsed # <<>> /\ parsed[1].kind = "Ok") => PayloadsNonEmpty(parsed[1].pc)

\* The text is never empty when the name between fn and the signature is not.
PayloadsNonEmptyOfNames ==
    (parsed # <<>> /\ Unwrapped(input) \in ExecInputs \ {ExecText(vis, <<>>) : vis \in VisKeywords})
    => PayloadsNonEmpty(parsed[1].pc)

----------------------------------------------------------------------------
\* The rate limiter (aspect-std/src/ratelimit.rs): a token bucket behind a
\* Mutex, or one bucket per function name.
\*
\* The f64 token counts are kept exactly: a bucket's tokens are counted in
\* units, TokenUnit of them to a token, one tick of time adding
\* refill_rate.requests units.  refill_rate is kept as the quotient
\* max_requests / window it was computed from; with a window of zero it is
\* infinite (or NaN when max_requests is zero).

TokenUnit(refill_rate) == IF refill_rate.window = 0 THEN 1 ELSE refill_rate.window

\* RateLimitAspect::new(max_requests, window), made at the instant now
RateLimitNew(max_requests, window, now) ==
    LET refill_rate == [requests |-> max_requests, window |-> window]
    IN [tokens |-> max_requests * TokenUnit(refill_rate),
        max_tokens |-> max_requests * TokenUnit(refill_rate),
        refill_rate |-> refill_rate,
        last_refill |-> now,
        per_function |-> FALSE,
        function_states |-> <<>>]

per_function(self) == [self EXCEPT !.per_function = TRUE]

\* (tokens + elapsed * refill_rate).min(max_tokens).  With an infinite or NaN
\* refill_rate the sum is infinite or NaN (0.0 * inf is NaN), and f64::min
\* returns the argument that is not NaN: max_tokens.
Refilled(tokens, elapsed, refill_rate, max_tokens) ==
    IF refill_rate.window = 0 THEN max_tokens
    ELSE LET sum == tokens + elapsed * refill_rate.requests
         IN IF sum < max_tokens THEN sum ELSE max_tokens

\* if tokens >= 1.0 { tokens -= 1.0; true } else { false }
TakeToken(tokens, refill_rate) ==
    IF tokens >= TokenUnit(refill_rate)
    THEN [tokens |-> tokens - TokenUnit(refill_rate), acquired |-> TRUE]
    ELSE [tokens |-> tokens, acquired |-> FALSE]

\* function_states.entry(name).or_insert_with(..)
EntryOrInsert(state, name, now) ==
    IF name \in DOMAIN state.function_states THEN state.function_states[name]
    ELSE [tokens |-> state.max_tokens, last_refill |-> now]

\* try_acquire(function_name) at the instant now: the state it leaves and
\* whether a token was taken
try_acquire(state, function_name, now) ==
    IF state.per_function
    THEN IF function_name # <<>>
         THEN LET name == function_name[1]
                  func_state == EntryOrInsert(state, name, now)
                  elapsed == now - func_state.last_refill
                  taken == TakeToken(Refilled(func_state.tokens, elapsed, state.refill_rate,
                                              state.max_tokens), state.refill_rate)
              IN [state |-> [state EXCEPT !.function_states =
                        [n \in DOMAIN state.function_states \cup {name} |->
                            IF n = name THEN [tokens |-> taken.tokens, last_refill |-> now]
                            ELSE state.function_states[n]]],
                  acquired |-> taken.acquired]
         ELSE [state |-> state, acquired |-> FALSE]
    ELSE LET elapsed == now - state.last_refill
             taken == TakeToken(Refilled(state.tokens, elapsed, state.refill_rate,
                                         state.max_tokens), state.refill_rate)
         IN [state |-> [state EXCEPT !.tokens = taken.tokens, !.last_refill = now],
             acquired |-> taken.acquired]

\* available_tokens() at the instant now: the state it leaves (it returns
\* the tokens of that state)
available_tokens(state, now) ==
    [state EXCEPT !.tokens = Refilled(state.tokens, now - state.last_refill,
                                      state.refill_rate, state.max_tokens),
                  !.last_refill = now]

RateLimitExceeded(function_name) == Err(<<"Rate limit exceeded for ", function_name>>)

MaxRequests == 2

MaxWindow == 2

MaxInstant == 2

\* The function names of the calls, and the token buckets: one per name in
\* per-function mode, the one of key <<>> otherwise.
LimitedNames == {<<"a">>, <<"b", "a">>}

BucketKeys == LimitedNames \cup {<<>>}

BucketKey(state, name) == IF state.per_function THEN name ELSE <<>>

\* The tokens and the last refill of the bucket a call finds.
Bucket(state, key, now) ==
    IF key = <<>> THEN [tokens |-> state.tokens, last_refill |-> state.last_refill]
    ELSE EntryOrInsert(state, key, now)

\* The history of a bucket once it is refilled at the instant now: when time
\* has passed since its last refill, the count of calls starts again, and full
\* tells whether the refill filled the bucket.
Seen(state, key, now) ==
    LET bucket == Bucket(state, key, now)
        elapsed == now - bucket.last_refill
    IN IF elapsed > 0
       THEN [full |-> Refilled(bucket.tokens, elapsed, state.refill_rate, state.max_tokens)
                        = state.max_tokens,
             asked |-> 0, granted |-> 0]
       ELSE buckets[key]

\* The variables the limiter leaves alone.
notLimiter == <<regVars, callVars, concVars, parseVars, matchVars, breakerVars, applyVars>>

\* A limiter made by new(..), or by new(..).per_function(), and no call yet.
InitLimiter ==
    /\ RegistryEmpty
    /\ CallIdle
    /\ ConcIdle
    /\ ParseIdle
    /\ MatchIdle
    /\ BreakerIdle
    /\ ApplyIdle
    /\ instant = 0
    /\ \E max_requests \in 0..MaxRequests, window \in 0..MaxWindow, each \in BOOLEAN :
            limiter = IF each THEN per_function(RateLimitNew(max_requests, window, 0))
                      ELSE RateLimitNew(max_requests, window, 0)
    /\ limited = [pc |-> "idle", name |-> <<>>, result |-> <<>>]
    /\ buckets = [key \in BucketKeys |-> [full |-> TRUE, asked |-> 0, granted |-> 0]]

\* Time passes.
Elapse ==
    /\ instant < MaxInstant
    /\ instant' = instant + 1
    /\ UNCHANGED <<limiter, limited, buckets, notLimiter>>

\* around, up to pjp.proceed(): try_acquire(Some(function_name)) lets the call
\* go on to the function or makes around return the error.
Acquire(name) ==
    /\ limited.pc = "idle"
    /\ LET got == try_acquire(limiter, <<name>>, instant)
           key == BucketKey(limiter, name)
           seen == Seen(limiter, key, instant)
       IN /\ limiter' = got.state
          /\ limited' = IF got.acquired
                        THEN [pc |-> "proceed", name |-> name, result |-> <<>>]
                        ELSE [pc |-> "idle", name |-> name,
                              result |-> <<RateLimitExceeded(name)>>]
          /\ buckets' = [buckets EXCEPT ![key] =
                [full |-> seen.full,
                 asked |-> Saturating(seen.asked, MaxRequests + 2),
                 granted |-> IF got.acquired THEN Saturating(seen.granted, MaxRequests + 2)
                             ELSE seen.granted]]
    /\ UNCHANGED <<instant, notLimiter>>

\* pjp.proceed(): the function runs, and around returns what it returns.
Run(o) ==
    /\ limited.pc = "proceed"
    /\ limited' = [limited EXCEPT !.pc = "idle", !.result = <<o>>]
    /\ UNCHANGED <<limiter, instant, buckets, notLimiter>>

\* available_tokens(), called by anyone at any time
AvailableTokens ==
    /\ limiter' = available_tokens(limiter, instant)
    /\ limiter' # limiter
    /\ buckets' = [buckets EXCEPT ![<<>>] = Seen(limiter, <<>>, instant)]
    /\ UNCHANGED <<instant, limited, notLimiter>>

NextLimiter ==
    \/ Elapse
    \/ \E name \in LimitedNames : Acquire(name)
    \/ \E o \in Outcomes : Run(o)
    \/ AvailableTokens

SpecLimiter == InitLimiter /\ [][NextLimiter]_vars

\* C25: a bucket that was full, and has been asked since with no time passing,
\* has granted every call up to max_requests of them and no call after that;
\* in per-function mode this holds of the bucket of each function name.
C25_AdmitsExactlyMax ==
    \A key \in BucketKeys :
        buckets[key].full
        => buckets[key].granted = (IF buckets[key].asked < limiter.refill_rate.requests
                                   THEN buckets[key].asked
                                   ELSE limiter.refill_rate.requests)

\* With a window longer than zero the bucket grants exactly max_requests calls.
AdmitsExactlyMaxInWindow == limiter.refill_rate.window > 0 => C25_AdmitsExactlyMax

\* A call try_acquire denies returns the error naming the function, and the
\* function is not run; a call it grants goes on to the function.
DeniedReturnsError ==
    [][\A name \in LimitedNames :
        (limited.pc = "idle" /\ limited' # limited /\ limited'.name = name)
        => IF try_acquire(limiter, <<name>>, instant).acquired
           THEN limited'.pc = "proceed"
           ELSE limited' = [pc |-> "idle", name |-> name,
                            result |-> <<RateLimitExceeded(name)>>]]_vars

\* In per-function mode, two names have been asked for more than max_requests
\* calls each with no time passing, and each was granted max_requests of them.
PerFunctionWitness ==
    /\ limiter.per_function /\ limiter.refill_rate.window > 0
    /\ limiter.refill_rate.requests = MaxRequests
    /\ \A name \in LimitedNames :
            /\ buckets[name].full
            /\ buckets[name].asked > MaxRequests
            /\ buckets[name].granted = MaxRequests

----------------------------------------------------------------------------
\* apply_aspects among concurrent callers, with advice that calls the registry
\* (aspect-runtime/src/registry.rs).  A thread is outside any call ("idle"),
\* inside the find_matching of its apply_aspects ("resolving"), back from it
\* ("resolved"), or inside the chain ("running"); op is its position inside a
\* registry method, which it calls from outside or from the advice and the
\* original function of its running call.

MaxLayers == 2

\* The function the threads call, which public_functions matches and within(m)
\* does not, and the pointcuts and priorities they register with.
ADVISED == FunctionInfo(NAME_A, N, PUB)

Registrations ==
    {[pointcut |-> public_functions, order |-> 20],
     [pointcut |-> Within(M), order |-> 10]}

AdvisedIdle ==
    [call |-> "idle", op |-> "none", arg |-> <<>>, function |-> <<>>,
     matching |-> <<>>, chain |-> <<>>, ran |-> <<>>]

\* The thread can call a method of the registry.
Free(t) == advised[t].op = "none" /\ advised[t].call \in {"idle", "running"}

\* The read guard of find_matching that stays with the caller of apply_aspects.
ReadGuardKept(readers, t) ==
    IF advised[t].call = "resolving" THEN readers ELSE readers \ {t}

\* The read guard is dropped when find_matching or count returns.
ReadGuardDropped(readers, t) == readers \ {t}

\* The variables apply_aspects and the registry calls leave alone.
notApply == <<callVars, threads, parseVars, matchVars, breakerVars, limiterVars>>

InitApply ==
    /\ RegistryEmpty
    /\ CallIdle
    /\ ConcIdle
    /\ ParseIdle
    /\ MatchIdle
    /\ BreakerIdle
    /\ LimiterIdle
    /\ advised = [t \in Threads |-> AdvisedIdle]

\* register: self.aspects.write().unwrap()
RegistryRegister(t, pointcut, order) ==
    /\ Free(t)
    /\ nextId <= MaxLayers
    /\ CanWrite
    /\ lock' = [lock EXCEPT !.writer = t]
    /\ advised' = [advised EXCEPT ![t].op = "push",
            ![t].arg = <<RegisteredAspect(nextId, "default", pointcut, order)>>]
    /\ nextId' = nextId + 1
    /\ UNCHANGED <<aspects, registered, notApply>>

\* register: aspects.push(RegisteredAspect { .. }), aspects.sort_by_key(..), and
\* the write guard is dropped as the call returns
RegistryPush(t) ==
    /\ advised[t].op = "push"
    /\ aspects' = sort_by_key(push(aspects, advised[t].arg[1]))
    /\ registered' = registered \cup {advised[t].arg[1]}
    /\ lock' = [lock EXCEPT !.writer = 0]
    /\ advised' = [advised EXCEPT ![t].op = "none", ![t].arg = <<>>]
    /\ UNCHANGED <<nextId, notApply>>

\* clear: self.aspects.write().unwrap()
RegistryClear(t) ==
    /\ Free(t)
    /\ aspects # <<>>
    /\ CanWrite
    /\ lock' = [lock EXCEPT !.writer = t]
    /\ advised' = [advised EXCEPT ![t].op = "clear"]
    /\ UNCHANGED <<regVars, notApply>>

\* clear: .clear(), and the write guard is dropped as the call returns
RegistryClearVec(t) ==
    /\ advised[t].op = "clear"
    /\ aspects' = <<>>
    /\ registered' = {}
    /\ lock' = [lock EXCEPT !.writer = 0]
    /\ advised' = [advised EXCEPT ![t].op = "none"]
    /\ UNCHANGED <<nextId, notApply>>

\* count: self.aspects.read().unwrap()
RegistryCount(t) ==
    /\ Free(t)
    /\ CanRead
    /\ lock' = [lock EXCEPT !.readers = lock.readers \cup {t}]
    /\ advised' = [advised EXCEPT ![t].op = "len"]
    /\ UNCHANGED <<regVars, notApply>>

\* count: .len(), the read guard is dropped and the call returns
RegistryCountReturn(t) ==
    /\ advised[t].op = "len"
    /\ lock' = [lock EXCEPT !.readers = ReadGuardDropped(lock.readers, t)]
    /\ advised' = [advised EXCEPT ![t].op = "none"]
    /\ UNCHANGED <<regVars, notApply>>

\* find_matching, called from outside or from advice:
\* self.aspects.read().unwrap()
RegistryFind(t, f) ==
    /\ Free(t)
    /\ CanRead
    /\ lock' = [lock EXCEPT !.readers = lock.readers \cup {t}]
    /\ advised' = [advised EXCEPT ![t].op = "filter", ![t].arg = <<f>>]
    /\ UNCHANGED <<regVars, notApply>>

\* apply_aspects, first statement: self.find_matching(function) takes the read
\* lock
Apply(t, f) ==
    /\ advised[t].call = "idle"
    /\ advised[t].op = "none"
    /\ CanRead
    /\ lock' = [lock EXCEPT !.readers = lock.readers \cup {t}]
    /\ advised' = [advised EXCEPT ![t] =
            [call |-> "resolving", op |-> "filter", arg |-> <<f>>,
             function |-> <<f>>, matching |-> <<>>, chain |-> <<>>, ran |-> <<>>]]
    /\ UNCHANGED <<regVars, notApply>>

\* find_matching: aspects.iter().filter(..).cloned().collect(); the read guard
\* is dropped and the Vec is returned, to apply_aspects (let matching = ..) or
\* to the other caller
RegistryFilter(t) ==
    /\ advised[t].op = "filter"
    /\ lock' = [lock EXCEPT !.readers = ReadGuardDropped(lock.readers, t)]
    /\ advised' = [advised EXCEPT ![t] =
            IF advised[t].call = "resolving"
            THEN [advised[t] EXCEPT !.call = "resolved", !.op = "none", !.arg = <<>>,
                                    !.matching = Filter(aspects, advised[t].arg[1])]
            ELSE [advised[t] EXCEPT !.op = "none", !.arg = <<>>]]
    /\ UNCHANGED <<regVars, notApply>>

\* apply_aspects: the loop that nests the continuations (none when nothing
\* matches)
Build(t) ==
    /\ advised[t].call = "resolved"
    /\ advised' = [advised EXCEPT ![t].call = "running",
            ![t].chain = BuildChain(advised[t].matching, advised[t].function[1])]
    /\ UNCHANGED <<regVars, lock, notApply>>

\* pjp.proceed() enters the around of the next layer of the chain.
ProceedLayer(t) ==
    /\ advised[t].call = "running"
    /\ advised[t].op = "none"
    /\ Len(advised[t].ran) < Len(advised[t].chain)
    /\ advised' = [advised EXCEPT
            ![t].ran = Append(advised[t].ran, advised[t].chain[Len(advised[t].ran) + 1].id)]
    /\ UNCHANGED <<regVars, lock, notApply>>

\* The innermost pjp.proceed() runs the original function, and the result
\* returns through the layers to the caller of apply_aspects.
ProceedOriginal(t) ==
    /\ advised[t].call = "running"
    /\ advised[t].op = "none"
    /\ Len(advised[t].ran) = Len(advised[t].chain)
    /\ advised' = [advised EXCEPT ![t] = AdvisedIdle]
    /\ UNCHANGED <<regVars, lock, notApply>>

\* The steps of a thread that holds the lock.
HolderStep(t) ==
    \/ RegistryPush(t)
    \/ RegistryClearVec(t)
    \/ RegistryCountReturn(t)
    \/ RegistryFilter(t)

NextApply ==
    \/ \E t \in Threads, r \in Registrations : RegistryRegister(t, r.pointcut, r.order)
    \/ \E t \in Threads : RegistryClear(t)
    \/ \E t \in Threads : RegistryCount(t)
    \/ \E t \in Threads : RegistryFind(t, ADVISED)
    \/ \E t \in Threads : Apply(t, ADVISED)
    \/ \E t \in Threads : RegistryPush(t)
    \/ \E t \in Threads : RegistryClearVec(t)
    \/ \E t \in Threads : RegistryCountReturn(t)
    \/ \E t \in Threads : RegistryFilter(t)
    \/ \E t \in Threads : Build(t)
    \/ \E t \in Threads : ProceedLayer(t)
    \/ \E t \in Threads : ProceedOriginal(t)

SpecApply == InitApply /\ [][NextApply]_vars

\* The thread holds the lock of the registry.
Holds(t) == t \in lock.readers \/ lock.writer = t

\* Thread t is inside its advised call (between the return of find_matching and
\* the return of apply_aspects) and not inside a registry method.
InAdvice(t) == advised[t].call \in {"resolved", "running"} /\ advised[t].op = "none"

\* C29: a thread inside the chain of its apply_aspects holds no lock of the
\* registry, a thread that holds the lock is inside a registry method and can
\* take its next step without waiting, and when no thread is inside a registry
\* method the lock is free: a register or clear, from advice or from another
\* thread, waits only for registry methods in progress, never for a call.
C29_NoLockWhileAdvised ==
    /\ \A t \in Threads : InAdvice(t) => ~Holds(t)
    /\ \A t \in Threads : Holds(t) => (advised[t].op # "none" /\ ENABLED HolderStep(t))
    /\ (\A t \in Threads : advised[t].op = "none") => (CanWrite /\ CanRead)

\* A thread whose call has run a layer is inside a register it called from the
\* advice, holding the write lock, while another thread's call is in its
\* chain.
C29_Witness ==
    \E t, u \in Threads :
        /\ t # u
        /\ advised[t].call = "running" /\ advised[t].ran # <<>>
        /\ advised[t].op = "push" /\ lock.writer = t
        /\ advised[u].call = "running" /\ advised[u].ran # <<>>

AspectIds(s) == [i \in 1..Len(s) |-> s[i].aspect.id]

\* The call of thread t has entered every layer of its chain: the original
\* function is what pjp.proceed() runs next.
AllLayersRun(t) ==
    advised[t].call = "running" /\ Len(advised[t].ran) = Len(advised[t].chain)

\* C30: the layers a call of apply_aspects runs are those of the Vec its
\* find_matching returned, in that order: at any moment the layers entered are
\* the first of them, and when the original function is reached they are all
\* of them, whatever was registered or cleared meanwhile.
C30_RunsResolvedLayers ==
    \A t \in Threads :
        /\ advised[t].call = "running"
           => /\ Len(advised[t].ran) <= Len(advised[t].matching)
              /\ advised[t].ran = SubSeq(AspectIds(advised[t].matching), 1, Len(advised[t].ran))
        /\ AllLayersRun(t) => advised[t].ran = AspectIds(advised[t].matching)

\* A call has run the two layers it resolved and reached the original
\* function, and the table was cleared meanwhile.
C30_Witness ==
    \E t \in Threads :
        /\ AllLayersRun(t)
        /\ Len(advised[t].ran) = 2
        /\ aspects = <<>>

\* A call has run the one layer it resolved and reached the original function,
\* and the table holds a second aspect that matches the function.
RegisteredMeanwhile ==
    \E t \in Threads :
        /\ AllLayersRun(t)
        /\ Len(advised[t].ran) = 1
        /\ Len(Filter(aspects, ADVISED)) = 2

====
